---- MODULE Spec2Model ----
(***************************************************************************)
(* Model of multi_view_composer: the layout tree builder and sizer         *)
(* (layout.py), the compositor (LayoutNode.get_image) and the overlay      *)
(* cache (overlays.py).                                                    *)
(***************************************************************************)
EXTENDS Integers, Sequences, FiniteSets, TLC

(***************************************************************************)
(* Bounds of the model.                                                    *)
(***************************************************************************)
MaxH == 2
MaxW == 4
MaxChildren == 4
MaxTicks == 3
MaxFractionDigits == 4
MaxExponent == 6

(***************************************************************************)
(* Values of the source.                                                   *)
(***************************************************************************)
\* Python None in a camera / direction field.
NoCamera == "None"
NoDirection == "None"

\* class Direction(Enum)
VERTICAL == "VERTICAL"
HORIZONTAL == "HORIZONTAL"

\* Default size for unknown cameras: height, width = 480, 640
DefaultHeight == 480
\* A default width that equals the default height.
SquareDefaultWidth == DefaultHeight
DefaultWidth == 640

\* Cameras declared in camera_sizes, and one camera name that is not.
Cameras == {"A", "B", "C"}
UnknownCamera == "U"

Heights == 1..MaxH
Widths == 1..MaxW

\* An empty Dict[str, Tuple[int, int]].
EmptySizes == [c \in {} |-> <<0, 0>>]

\* A dictionary write that keeps an entry that is already there (setdefault).
SetDefault(d, k, v) == [x \in (DOMAIN d) \cup {k} |-> IF x \in DOMAIN d THEN d[x] ELSE v]

\* target_sizes[camera] = (height, width)
SetItem(d, k, v) == [x \in (DOMAIN d) \cup {k} |-> IF x = k THEN v ELSE d[x]]

(***************************************************************************)
(* round(x * (a / b)) of the source, as round(num, den) with num = x * a   *)
(* and den = b: Python 3 rounds to the nearest integer and a tie to the    *)
(* even one.  Operands are never negative.                                 *)
(***************************************************************************)
RoundHalfUp(num, den) ==
    LET q == num \div den
        r == num % den
    IN  IF 2 * r >= den THEN q + 1 ELSE q

round(num, den) ==
    LET q == num \div den
        r == num % den
    IN  IF 2 * r > den \/ (2 * r = den /\ q % 2 = 1) THEN q + 1 ELSE q

(***************************************************************************)
(* LayoutNode.  A leaf has a camera; a junction has camera None, a         *)
(* direction and two children.                                             *)
(***************************************************************************)
make_camera_node(camera, height, width) ==
    [camera |-> camera, height |-> height, width |-> width]

LayoutNode(height, width, direction, left, right) ==
    [camera |-> NoCamera, height |-> height, width |-> width,
     direction |-> direction, left |-> left, right |-> right]

IsLeaf(node) == node.camera # NoCamera

\* The outcome of a call that raised.
Raised(error, target_sizes) ==
    [ok |-> FALSE, error |-> error, target_sizes |-> target_sizes]

Returned(node, target_sizes) ==
    [ok |-> TRUE, node |-> node, target_sizes |-> target_sizes]

(***************************************************************************)
(* LayoutNode.resize: recursively resize this node and all children.       *)
(* Returns the resized node and the updated target_sizes, or the           *)
(* ZeroDivisionError raised by new_height / self.height (vertical) or      *)
(* new_width / self.width (horizontal).                                    *)
(***************************************************************************)
\* left_height = round(self.left.height * ratio), ratio = new_height / self.height
\* (left_width likewise on the widths)
left_size(left_dim, new_dim, old_dim) == round(left_dim * new_dim, old_dim)

\* A right child that is scaled and rounded on its own instead.
right_size_rounded(right_dim, new_dim, old_dim, left_new) ==
    round(right_dim * new_dim, old_dim)

\* A right child that is given the whole new dimension of the junction.
right_size_whole(right_dim, new_dim, old_dim, left_new) == new_dim

\* right_height = new_height - left_height (right_width likewise)
right_size(right_dim, new_dim, old_dim, left_new) == new_dim - left_new

RECURSIVE resize(_, _, _, _)
resize(self, new_height, new_width, target_sizes) ==
    IF self.camera # NoCamera
    THEN \* Leaf node - update target size
         Returned([self EXCEPT !.height = new_height, !.width = new_width],
                  SetItem(target_sizes, self.camera, <<new_height, new_width>>))
    ELSE IF self.direction = VERTICAL
    THEN IF self.height = 0
         THEN Raised("ZeroDivisionError", target_sizes)
         ELSE LET left_height == left_size(self.left.height, new_height, self.height)
                  right_height == right_size(self.right.height, new_height,
                                             self.height, left_height)
                  l == resize(self.left, left_height, new_width, target_sizes)
              IN  IF ~l.ok THEN l
                  ELSE LET r == resize(self.right, right_height, new_width,
                                       l.target_sizes)
                       IN  IF ~r.ok THEN r
                           ELSE Returned([self EXCEPT !.height = new_height,
                                                      !.width = new_width,
                                                      !.left = l.node,
                                                      !.right = r.node],
                                         r.target_sizes)
    ELSE IF self.width = 0
         THEN Raised("ZeroDivisionError", target_sizes)
         ELSE LET left_width == left_size(self.left.width, new_width, self.width)
                  right_width == right_size(self.right.width, new_width,
                                            self.width, left_width)
                  l == resize(self.left, new_height, left_width, target_sizes)
              IN  IF ~l.ok THEN l
                  ELSE LET r == resize(self.right, new_height, right_width,
                                       l.target_sizes)
                       IN  IF ~r.ok THEN r
                           ELSE Returned([self EXCEPT !.height = new_height,
                                                      !.width = new_width,
                                                      !.left = l.node,
                                                      !.right = r.node],
                                         r.target_sizes)

(***************************************************************************)
(* make_junction_node: the node with the larger perpendicular dimension    *)
(* is scaled down to the other one's.  The divisor (the larger node's      *)
(* width or height) is larger than the other node's and so never 0.        *)
(***************************************************************************)
\* A scaled dimension cut to an integer, as int() does, instead of rounded.
scaled_truncated(dim, smaller, larger) == (dim * smaller) \div larger

\* scale = smaller / larger; new_height = round(node.height * scale)
scaled(dim, smaller, larger) == round(dim * smaller, larger)

\* A resize that scales the height and leaves the node at its own width.
resize_keeping_width(node, other, target_sizes) ==
    resize(node, scaled(node.height, other.width, node.width), node.width,
           target_sizes)

\* node.resize(new_height, other.width, target_sizes)
resize_to_width(node, other, target_sizes) ==
    resize(node, scaled(node.height, other.width, node.width), other.width,
           target_sizes)

\* A resize that scales the width and leaves the node at its own height.
resize_keeping_height(node, other, target_sizes) ==
    resize(node, node.height, scaled(node.width, other.height, node.height),
           target_sizes)

\* node.resize(other.height, new_width, target_sizes)
resize_to_height(node, other, target_sizes) ==
    resize(node, other.height, scaled(node.width, other.height, node.height),
           target_sizes)

make_junction_node(node1, node2, direction, target_sizes) ==
    IF direction = VERTICAL
    THEN LET r1 == IF node1.width > node2.width
                   THEN resize_to_width(node1, node2, target_sizes)
                   ELSE Returned(node1, target_sizes)
             r2 == IF node1.width < node2.width
                   THEN resize_to_width(node2, node1, target_sizes)
                   ELSE Returned(node2, r1.target_sizes)
         IN  IF ~r1.ok THEN r1
             ELSE IF ~r2.ok THEN r2
             ELSE Returned(LayoutNode(r1.node.height + r2.node.height, r1.node.width,
                                      direction, r1.node, r2.node),
                           r2.target_sizes)
    ELSE LET r1 == IF node1.height > node2.height
                   THEN resize_to_height(node1, node2, target_sizes)
                   ELSE Returned(node1, target_sizes)
             r2 == IF node1.height < node2.height
                   THEN resize_to_height(node2, node1, target_sizes)
                   ELSE Returned(node2, r1.target_sizes)
         IN  IF ~r1.ok THEN r1
             ELSE IF ~r2.ok THEN r2
             ELSE Returned(LayoutNode(r1.node.height, r1.node.width + r2.node.width,
                                      direction, r1.node, r2.node),
                           r2.target_sizes)

(***************************************************************************)
(* LayoutNodeConfig: a leaf names a camera; a junction has a direction     *)
(* string and a list of children (dataclass defaults: None, None, []).     *)
(***************************************************************************)
CameraConfigNode(camera) ==
    [camera |-> camera, direction |-> NoDirection, children |-> <<>>]

JunctionConfigNode(direction, children) ==
    [camera |-> NoCamera, direction |-> direction, children |-> children]

(***************************************************************************)
(* build_layout_from_config.  The last argument and the calls field of     *)
(* the result are a history of the completed make_junction_node calls      *)
(* (arguments and results), kept to state properties of single calls.      *)
(***************************************************************************)
Built(node, target_sizes, calls) ==
    [ok |-> TRUE, error |-> "", node |-> node, target_sizes |-> target_sizes,
     calls |-> calls]

Failed(error, target_sizes, calls) ==
    [ok |-> FALSE, error |-> error, target_sizes |-> target_sizes, calls |-> calls]

JunctionCall(node1, node2, direction, target_sizes, out) ==
    [node1 |-> node1, node2 |-> node2, direction |-> direction,
     target_sizes |-> target_sizes, junction |-> out.node,
     target_sizes_out |-> out.target_sizes]

\* for i in range(1, len(child_nodes)): result = make_junction_node(result, child_nodes[i], ...)
RECURSIVE CombineLeftToRight(_, _, _, _, _, _)
CombineLeftToRight(child_nodes, i, result, direction, target_sizes, calls) ==
    IF i > Len(child_nodes)
    THEN Built(result, target_sizes, calls)
    ELSE LET out == make_junction_node(result, child_nodes[i], direction, target_sizes)
         IN  IF ~out.ok
             THEN Failed(out.error, out.target_sizes, calls)
             ELSE CombineLeftToRight(child_nodes, i + 1, out.node, direction,
                                     out.target_sizes,
                                     Append(calls, JunctionCall(result, child_nodes[i],
                                                                direction, target_sizes,
                                                                out)))

\* A right-to-left combination: child_nodes[i] joined with the combination of
\* the children after it.
RECURSIVE CombineFromRight(_, _, _, _, _)
CombineFromRight(child_nodes, i, direction, target_sizes, calls) ==
    IF i = Len(child_nodes)
    THEN Built(child_nodes[i], target_sizes, calls)
    ELSE LET rest == CombineFromRight(child_nodes, i + 1, direction, target_sizes, calls)
         IN  IF ~rest.ok THEN rest
             ELSE LET out == make_junction_node(child_nodes[i], rest.node, direction,
                                                rest.target_sizes)
                  IN  IF ~out.ok
                      THEN Failed(out.error, out.target_sizes, rest.calls)
                      ELSE Built(out.node, out.target_sizes,
                                 Append(rest.calls,
                                        JunctionCall(child_nodes[i], rest.node, direction,
                                                     rest.target_sizes, out)))

CombineRightToLeft(child_nodes, direction, target_sizes, calls) ==
    CombineFromRight(child_nodes, 1, direction, target_sizes, calls)

\* result = child_nodes[0]; then the loop over the other children
CombineChildren(child_nodes, direction, target_sizes, calls) ==
    CombineLeftToRight(child_nodes, 2, child_nodes[1], direction, target_sizes, calls)

RECURSIVE build_layout_from_config(_, _, _, _)
RECURSIVE BuildChildren(_, _, _, _, _, _)

\* for child_config in layout_config.children: child_nodes.append(build_layout_from_config(...))
BuildChildren(children, i, child_nodes, camera_sizes, target_sizes, calls) ==
    IF i > Len(children)
    THEN [ok |-> TRUE, error |-> "", child_nodes |-> child_nodes,
          target_sizes |-> target_sizes, calls |-> calls]
    ELSE LET child == build_layout_from_config(children[i], camera_sizes,
                                               target_sizes, calls)
         IN  IF ~child.ok
             THEN [ok |-> FALSE, error |-> child.error, child_nodes |-> child_nodes,
                   target_sizes |-> child.target_sizes, calls |-> child.calls]
             ELSE BuildChildren(children, i + 1, Append(child_nodes, child.node),
                                camera_sizes, child.target_sizes, child.calls)

build_layout_from_config(layout_config, camera_sizes, target_sizes, calls) ==
    IF layout_config.camera # NoCamera
    THEN LET camera == layout_config.camera
             size == IF camera \in DOMAIN camera_sizes
                     THEN camera_sizes[camera]
                     ELSE <<DefaultHeight, DefaultWidth>>
         IN  Built(make_camera_node(camera, size[1], size[2]),
                   SetItem(target_sizes, camera, size), calls)
    ELSE IF Len(layout_config.children) < 2
    THEN Failed("ValueError", target_sizes, calls)
    ELSE LET direction == IF layout_config.direction = "horizontal"
                          THEN HORIZONTAL ELSE VERTICAL
             built == BuildChildren(layout_config.children, 1, <<>>, camera_sizes,
                                    target_sizes, calls)
         IN  IF ~built.ok
             THEN Failed(built.error, built.target_sizes, built.calls)
             ELSE CombineChildren(built.child_nodes, direction, built.target_sizes,
                                  built.calls)

compute_layout_from_config(layout_config, camera_sizes) ==
    build_layout_from_config(layout_config, camera_sizes, EmptySizes, <<>>)

(***************************************************************************)
(* The compositor.  An image is its (height, width); cv2.vconcat needs     *)
(* equal widths and cv2.hconcat equal heights, and raises otherwise.       *)
(***************************************************************************)
Image(height, width) == [ok |-> TRUE, height |-> height, width |-> width]
Cv2Error == [ok |-> FALSE, height |-> 0, width |-> 0]

vconcat(img1, img2) ==
    IF img1.width = img2.width
    THEN Image(img1.height + img2.height, img1.width)
    ELSE Cv2Error

hconcat(img1, img2) ==
    IF img1.height = img2.height
    THEN Image(img1.height, img1.width + img2.width)
    ELSE Cv2Error

RECURSIVE get_image(_, _)
get_image(self, get_camera_image) ==
    IF self.camera # NoCamera
    THEN get_camera_image[self.camera]
    ELSE LET left_img == get_image(self.left, get_camera_image)
             right_img == get_image(self.right, get_camera_image)
         IN  IF ~left_img.ok THEN left_img
             ELSE IF ~right_img.ok THEN right_img
             ELSE IF self.direction = VERTICAL
                  THEN vconcat(left_img, right_img)
                  ELSE hconcat(left_img, right_img)

\* LayoutManager.get_target_size: self.target_sizes[tree_index].get(camera_name, (480, 640))
get_target_size(sizes, camera_name) ==
    IF camera_name \in DOMAIN sizes
    THEN sizes[camera_name]
    ELSE <<DefaultHeight, DefaultWidth>>

AllCameraNames == Cameras \cup {UnknownCamera}

\* A camera accessor that returns, for every camera, a buffer of the size that
\* sizes records for it (the default size for a camera it does not record).
BufferAccessor(sizes) ==
    [c \in AllCameraNames |->
        Image(get_target_size(sizes, c)[1], get_target_size(sizes, c)[2])]

\* LayoutManager.concatenate for a computed root.
concatenate(tree_root, get_camera_image) == get_image(tree_root, get_camera_image)

(***************************************************************************)
(* Python values of the overlay engine.  A value is a tuple whose first    *)
(* element is its type: a str carries its sequence of characters, an int   *)
(* and a bool their value, a float the decimal m / 10^e (e fractional      *)
(* digits, no trailing zero), None nothing.                                *)
(***************************************************************************)
IntV(n) == <<"int", n>>
BoolV(b) == <<"bool", b>>
StrV(chars) == <<"str", chars>>
NoneV == <<"none">>

RECURSIVE Pow10(_)
Pow10(e) == IF e = 0 THEN 1 ELSE 10 * Pow10(e - 1)

\* The float m / 10^e, trailing zeros of the fraction removed.
RECURSIVE FloatV(_, _)
FloatV(m, e) == IF e > 0 /\ m % 10 = 0 THEN FloatV(m \div 10, e - 1)
                ELSE <<"float", m, e>>

TypeOf(x) == x[1]
IsNumber(x) == TypeOf(x) \in {"int", "bool", "float"}
IsStr(x) == TypeOf(x) = "str"

\* An exception that leaves a function, in the place of its result
Raise(exception) == <<"raise", exception>>
IsRaise(x) == TypeOf(x) = "raise"
\* The same for a function that returns a text
Raises(text) == text # <<>> /\ text[1] = "raise"

\* A number as the decimal Mantissa / 10^Scale.
Mantissa(x) == IF TypeOf(x) = "bool" THEN (IF x[2] THEN 1 ELSE 0) ELSE x[2]
Scale(x) == IF TypeOf(x) = "float" THEN x[3] ELSE 0

\* a < b and a == b of two numbers, whatever their types (1 == 1.0 == True)
NumLt(a, b) == Mantissa(a) * Pow10(Scale(b)) < Mantissa(b) * Pow10(Scale(a))
NumEq(a, b) == Mantissa(a) * Pow10(Scale(b)) = Mantissa(b) * Pow10(Scale(a))

\* The printable ASCII characters in code point order, from the space (32).
\* The grave accent (96) cannot be written in a TLA+ string: "grave" holds
\* its place, and no string of the model contains it.
Ascii == <<
    " ", "!", "\"", "#", "$", "%", "&", "'", "(", ")", "*", "+",
    ",", "-", ".", "/", "0", "1", "2", "3", "4", "5", "6", "7",
    "8", "9", ":", ";", "<", "=", ">", "?", "@", "A", "B", "C",
    "D", "E", "F", "G", "H", "I", "J", "K", "L", "M", "N", "O",
    "P", "Q", "R", "S", "T", "U", "V", "W", "X", "Y", "Z", "[",
    "\\", "]", "^", "_", "grave", "a", "b", "c", "d", "e", "f", "g",
    "h", "i", "j", "k", "l", "m", "n", "o", "p", "q", "r", "s",
    "t", "u", "v", "w", "x", "y", "z", "{", "|", "}", "~">>

Ord(c) == 31 + (CHOOSE i \in DOMAIN Ascii : Ascii[i] = c)

LowerLetters == <<"a", "b", "c", "d", "e", "f", "g", "h", "i", "j", "k", "l", "m", "n", "o", "p", "q", "r", "s", "t", "u", "v", "w", "x", "y", "z">>
UpperLetters == <<"A", "B", "C", "D", "E", "F", "G", "H", "I", "J", "K", "L", "M", "N", "O", "P", "Q", "R", "S", "T", "U", "V", "W", "X", "Y", "Z">>
DigitChars == <<"0", "1", "2", "3", "4", "5", "6", "7", "8", "9">>
Digits == {DigitChars[i] : i \in DOMAIN DigitChars}
DigitValue(c) == (CHOOSE i \in DOMAIN DigitChars : DigitChars[i] = c) - 1

\* \w of the regular expressions
WordChars == {LowerLetters[i] : i \in DOMAIN LowerLetters}
             \cup {UpperLetters[i] : i \in DOMAIN UpperLetters}
             \cup Digits \cup {"_"}

\* The characters str.strip() removes; the strings of the model hold no
\* other white space than the space.
Whitespace == {" "}

\* s[i:], s[:i] and s[i:j] with 1-based TLA+ positions (end exclusive)
From(s, i) == SubSeq(s, i, Len(s))
Upto(s, i) == SubSeq(s, 1, i - 1)

RECURSIVE lstrip(_, _)
lstrip(s, chars) == IF s # <<>> /\ Head(s) \in chars THEN lstrip(Tail(s), chars) ELSE s

RECURSIVE rstrip(_, _)
rstrip(s, chars) == IF s # <<>> /\ s[Len(s)] \in chars
                    THEN rstrip(SubSeq(s, 1, Len(s) - 1), chars) ELSE s

\* s.strip(chars) and s.strip()
strip_chars(s, chars) == rstrip(lstrip(s, chars), chars)
strip(s) == strip_chars(s, Whitespace)

LowerChar(c) == IF \E i \in DOMAIN UpperLetters : UpperLetters[i] = c
                THEN LowerLetters[CHOOSE i \in DOMAIN UpperLetters : UpperLetters[i] = c]
                ELSE c

\* s.lower()
lower(s) == [i \in DOMAIN s |-> LowerChar(s[i])]

\* s.startswith(c) and s.endswith(c) for a one-character c
startswith(s, c) == s # <<>> /\ s[1] = c
endswith(s, c) == s # <<>> /\ s[Len(s)] = c

\* s.find(sub), 1-based; 0 when sub does not occur in s
Find(sub, s) ==
    LET starts == {i \in 1..(Len(s) - Len(sub) + 1) : SubSeq(s, i, i + Len(sub) - 1) = sub}
    IN  IF starts = {} THEN 0 ELSE CHOOSE i \in starts : \A j \in starts : i <= j

\* s.split(sub, 1) when sub occurs in s
split_once(s, sub) ==
    LET i == Find(sub, s) IN <<Upto(s, i), From(s, i + Len(sub))>>

\* a < b of two str: by code points, a proper prefix first
RECURSIVE StrLt(_, _)
StrLt(a, b) ==
    IF b = <<>> THEN FALSE
    ELSE IF a = <<>> THEN TRUE
    ELSE IF Head(a) = Head(b) THEN StrLt(Tail(a), Tail(b))
    ELSE Ord(Head(a)) < Ord(Head(b))

\* str(n) for an int n >= 0
RECURSIVE NatStr(_)
NatStr(n) == IF n < 10 THEN <<DigitChars[n + 1]>>
             ELSE NatStr(n \div 10) \o <<DigitChars[(n % 10) + 1]>>

IntStr(n) == IF n < 0 THEN <<"-">> \o NatStr(-n) ELSE NatStr(n)

\* n >= 0 in exactly width digits (leading zeros), nothing for width 0
RECURSIVE PadStr(_, _)
PadStr(n, width) == IF width = 0 THEN <<>>
                    ELSE PadStr(n \div 10, width - 1) \o <<DigitChars[(n % 10) + 1]>>

\* m / 10^e >= 0 written with exactly e fractional digits
FixedStr(m, e) == IF e = 0 THEN NatStr(m)
                  ELSE NatStr(m \div Pow10(e)) \o <<".">> \o PadStr(m % Pow10(e), e)

\* repr of a float: its decimal expansion with at least one fractional
\* digit (the floats of the model are far from the exponent notation).
FloatStr(m, e) ==
    LET digits == IF e = 0 THEN FixedStr(10 * (IF m < 0 THEN -m ELSE m), 1)
                  ELSE FixedStr(IF m < 0 THEN -m ELSE m, e)
    IN  IF m < 0 THEN <<"-">> \o digits ELSE digits

\* str(value)
str(x) ==
    CASE TypeOf(x) = "str" -> x[2]
      [] TypeOf(x) = "int" -> IntStr(x[2])
      [] TypeOf(x) = "float" -> FloatStr(x[2], x[3])
      [] TypeOf(x) = "bool" -> (IF x[2] THEN <<"T", "r", "u", "e">> ELSE <<"F", "a", "l", "s", "e">>)
      [] TypeOf(x) = "none" -> <<"N", "o", "n", "e">>

\* bool(value)
bool(x) ==
    CASE TypeOf(x) = "str" -> x[2] # <<>>
      [] TypeOf(x) = "bool" -> x[2]
      [] TypeOf(x) = "none" -> FALSE
      [] TypeOf(x) \in {"int", "float"} -> x[2] # 0

\* dict.get(key, default)
Get(d, k, default) == IF k \in DOMAIN d THEN d[k] ELSE default

(***************************************************************************)
(* template_engine.py                                                      *)
(***************************************************************************)
\* The position after the run of \w characters that starts at position i.
RECURSIVE WordEnd(_, _)
WordEnd(s, i) == IF i <= Len(s) /\ s[i] \in WordChars THEN WordEnd(s, i + 1) ELSE i

\* _VAR_PATTERN \{(\w+)\} matched at position i, the name ending before j:
\* the position of the closing brace, 0 when there is no match.
VarClose(s, i, j) ==
    IF s[i] = "{" /\ j > i + 1 /\ j <= Len(s) /\ s[j] = "}" THEN j ELSE 0

\* replace_var on the match from i to close
VarReplacement(s, i, close, context) ==
    IF SubSeq(s, i + 1, close - 1) \in DOMAIN context
    THEN str(context[SubSeq(s, i + 1, close - 1)])
    ELSE SubSeq(s, i, close)

\* _VAR_PATTERN.sub(replace_var, expr) from position i on
RECURSIVE replace_var(_, _, _)
VarAt(s, i, close, context) ==
    IF close = 0 THEN <<s[i]>> \o replace_var(s, i + 1, context)
    ELSE VarReplacement(s, i, close, context) \o replace_var(s, close + 1, context)

replace_var(s, i, context) ==
    IF i > Len(s) THEN <<>>
    ELSE VarAt(s, i, VarClose(s, i, WordEnd(s, i + 1)), context)

_substitute_variables(expr, context) == replace_var(expr, 1, context)

\* The digits of an int or float literal: digits, single underscores
\* allowed between two digits.
IsDigitPart(s) ==
    /\ s # <<>>
    /\ s[1] \in Digits /\ s[Len(s)] \in Digits
    /\ \A i \in DOMAIN s : s[i] \in Digits \cup {"_"}
    /\ \A i \in 1..(Len(s) - 1) : ~(s[i] = "_" /\ s[i + 1] = "_")

RECURSIVE DigitPartValue(_, _)
DigitPartValue(s, acc) ==
    IF s = <<>> THEN acc
    ELSE IF Head(s) = "_" THEN DigitPartValue(Tail(s), acc)
    ELSE DigitPartValue(Tail(s), 10 * acc + DigitValue(Head(s)))

RECURSIVE DigitCount(_)
DigitCount(s) == IF s = <<>> THEN 0
                 ELSE (IF Head(s) = "_" THEN 0 ELSE 1) + DigitCount(Tail(s))

Unsigned(s) == IF s # <<>> /\ s[1] \in {"+", "-"} THEN Tail(s) ELSE s
SignOf(s) == IF s # <<>> /\ s[1] = "-" THEN -1 ELSE 1

\* int(s) of a stripped s raises ValueError unless s is a decimal literal
IntRaises(s) == ~IsDigitPart(Unsigned(s))
IntValue(s) == IntV(SignOf(s) * DigitPartValue(Unsigned(s), 0))

\* float(s) of a stripped s that contains a ".": the model covers the
\* literals without exponent, [sign] digits "." [digits] and [sign] "." digits.
IsExponentForm(s) ==
    /\ \E i \in DOMAIN s : s[i] \in {"e", "E"}
    /\ \A i \in DOMAIN s : s[i] \in Digits \cup {".", "e", "E", "+", "-", "_"}

\* The digits before and after the "." of an unsigned literal
IntegerPart(u) == Upto(u, Find(<<".">>, u))
FractionPart(u) == From(u, Find(<<".">>, u) + 1)

IsDecimal(integer, fraction) ==
    /\ integer = <<>> \/ IsDigitPart(integer)
    /\ fraction = <<>> \/ IsDigitPart(fraction)
    /\ integer # <<>> \/ fraction # <<>>

FloatRaises(s) ==
    CASE ~IsExponentForm(s) ->
            ~IsDecimal(IntegerPart(Unsigned(s)), FractionPart(Unsigned(s)))

DecimalValue(sign, integer, fraction) ==
    FloatV(sign * DigitPartValue(integer \o fraction, 0), DigitCount(fraction))

FloatValue(s) ==
    DecimalValue(SignOf(s), IntegerPart(Unsigned(s)), FractionPart(Unsigned(s)))

\* _parse_value after value_str.strip()
ParseStripped(s) ==
    IF lower(s) = <<"t", "r", "u", "e">> THEN BoolV(TRUE)
    ELSE IF lower(s) = <<"f", "a", "l", "s", "e">> THEN BoolV(FALSE)
    ELSE IF \/ startswith(s, "'") /\ endswith(s, "'")
            \/ startswith(s, "\"") /\ endswith(s, "\"")
         THEN StrV(SubSeq(s, 2, Len(s) - 1))
    ELSE IF Find(<<".">>, s) > 0
         THEN (IF FloatRaises(s) THEN StrV(s) ELSE FloatValue(s))
    ELSE IF IntRaises(s) THEN StrV(s) ELSE IntValue(s)

_parse_value(value_str, context) == ParseStripped(strip(value_str))

\* a == b of Python: numbers by value, str by content, otherwise unequal
\* (None equals None).
PyEq(a, b) ==
    IF IsNumber(a) /\ IsNumber(b) THEN NumEq(a, b)
    ELSE TypeOf(a) = TypeOf(b) /\ a = b

\* a < b of Python; an order between a str and a number raises TypeError
LtRaises(a, b) == ~(IsNumber(a) /\ IsNumber(b)) /\ ~(IsStr(a) /\ IsStr(b))
PyLt(a, b) == IF IsNumber(a) THEN NumLt(a, b) ELSE StrLt(a[2], b[2])

\* As OPERATORS, with the one-character operators first
OPERATORS_short_first == << <<"<">>, <<">">>, <<"=", "=">>, <<"!", "=">>, <<"<", "=">>, <<">", "=">> >>

\* The keys of OPERATORS in their dict order
OPERATORS == << <<"=", "=">>, <<"!", "=">>, <<"<", "=">>, <<">", "=">>, <<"<">>, <<">">> >>

\* As op_func, with True for a comparison that raises TypeError
op_func_fails_open(op_str, left_val, right_val) ==
    CASE op_str = <<"=", "=">> -> PyEq(left_val, right_val)
      [] op_str = <<"!", "=">> -> ~PyEq(left_val, right_val)
      [] LtRaises(left_val, right_val) -> TRUE
      [] op_str = <<"<", "=">> -> ~PyLt(right_val, left_val)
      [] op_str = <<">", "=">> -> ~PyLt(left_val, right_val)
      [] op_str = <<"<">> -> PyLt(left_val, right_val)
      [] op_str = <<">">> -> PyLt(right_val, left_val)

\* op_func(left_val, right_val) with TypeError caught as False
op_func(op_str, left_val, right_val) ==
    CASE op_str = <<"=", "=">> -> PyEq(left_val, right_val)
      [] op_str = <<"!", "=">> -> ~PyEq(left_val, right_val)
      [] LtRaises(left_val, right_val) -> FALSE
      [] op_str = <<"<", "=">> -> ~PyLt(right_val, left_val)
      [] op_str = <<">", "=">> -> ~PyLt(left_val, right_val)
      [] op_str = <<"<">> -> PyLt(left_val, right_val)
      [] op_str = <<">">> -> PyLt(right_val, left_val)

\* The index in OPERATORS of the first operator that occurs in substituted,
\* 0 when none does
RECURSIVE FirstOperator(_, _)
FirstOperator(substituted, i) ==
    IF i > Len(OPERATORS) THEN 0
    ELSE IF Find(OPERATORS[i], substituted) > 0 THEN i
    ELSE FirstOperator(substituted, i + 1)

\* The comparison of the two parts of substituted.split(op_str, 1)
Compare(op_str, parts, context) ==
    op_func(op_str, _parse_value(strip(parts[1]), context),
                    _parse_value(strip(parts[2]), context))

\* Without an operator: a boolean literal, else the truth of the context
\* entry of that name
SimpleBoolean(stripped, context) ==
    IF lower(stripped) = <<"t", "r", "u", "e">> THEN TRUE
    ELSE IF lower(stripped) = <<"f", "a", "l", "s", "e">> THEN FALSE
    ELSE bool(Get(context, stripped, BoolV(FALSE)))

\* evaluate_condition once the variables are substituted; found is the
\* index of the operator
EvaluateSubstituted(substituted, found, context) ==
    IF found > 0
    THEN Compare(OPERATORS[found], split_once(substituted, OPERATORS[found]), context)
    ELSE SimpleBoolean(strip(substituted), context)

\* The part of evaluate_condition after the substitution of the variables
FindOperator(substituted, context) ==
    EvaluateSubstituted(substituted, FirstOperator(substituted, 1), context)

\* expr is None or a str
evaluate_condition(expr, context) ==
    IF ~bool(expr) THEN TRUE
    ELSE FindOperator(_substitute_variables(expr[2], context), context)

\* The position of the first "}" of s from position k on, 0 when none
RECURSIVE NextClose(_, _)
NextClose(s, k) == IF k > Len(s) THEN 0
                   ELSE IF s[k] = "}" THEN k ELSE NextClose(s, k + 1)

\* _TEMPLATE_PATTERN \{(\w+)(:[^}]+)?\} matched at position i, the name
\* ending before j and k the next "}" after j: the position of the closing
\* brace, 0 when there is no match.
TemplateClose(s, i, j, k) ==
    IF ~(s[i] = "{" /\ j > i + 1 /\ j <= Len(s)) THEN 0
    ELSE IF s[j] = "}" THEN j
    ELSE IF s[j] = ":" /\ k >= j + 2 THEN k
    ELSE 0

RECURSIVE Pow5(_)
Pow5(e) == IF e = 0 THEN 1 ELSE 5 * Pow5(e - 1)

\* The quotient q and remainder r of m by drop = 10^(e - precision) rounded
\* to nearest; a tie goes to the even digit when the float holds the decimal
\* exactly (5^e divides m).  The other ties depend on the binary error of
\* the float and are outside the model.
RoundTie(m, e, q, r, drop) ==
    CASE 2 * r > drop -> q + 1
      [] 2 * r < drop -> q
      [] 2 * r = drop /\ m % Pow5(e) = 0 -> (IF q % 2 = 1 THEN q + 1 ELSE q)

RoundDropped(m, e, drop) == RoundTie(m, e, m \div drop, m % drop, drop)

\* format(x, ".<precision>f") of the number a / 10^e >= 0
FixedDigits(a, e, precision) ==
    IF precision >= e THEN FixedStr(a * Pow10(precision - e), precision)
    ELSE FixedStr(RoundDropped(a, e, Pow10(e - precision)), precision)

FixedFormat(m, e, precision) ==
    IF m < 0 THEN <<"-">> \o FixedDigits(-m, e, precision)
    ELSE FixedDigits(m, e, precision)

\* The format specs of the model: ".<digits>f", "d" and "c".
IsFixedSpec(spec) ==
    /\ Len(spec) >= 3 /\ spec[1] = "." /\ spec[Len(spec)] = "f"
    /\ \A i \in 2..(Len(spec) - 1) : spec[i] \in Digits

\* format(value, spec) raises ValueError or TypeError
FormatRaises(value, spec) ==
    CASE TypeOf(value) = "none" -> TRUE
      [] TypeOf(value) = "str" /\ (IsFixedSpec(spec) \/ spec = <<"d">>) -> TRUE
      [] TypeOf(value) = "float" /\ spec = <<"d">> -> TRUE
      [] TypeOf(value) \in {"str", "float"} /\ spec = <<"c">> -> TRUE
      [] TypeOf(value) = "int" /\ spec = <<"c">> -> FALSE
      [] IsNumber(value) /\ IsFixedSpec(spec) -> FALSE
      [] TypeOf(value) \in {"int", "bool"} /\ spec = <<"d">> -> FALSE

\* format(value, "c") raises OverflowError, which replace_placeholder does
\* not catch: the int is no code point (sys.maxunicode is 0x10FFFF)
FormatOverflows(value, spec) ==
    TypeOf(value) = "int" /\ spec = <<"c">> /\ value[2] \notin 0..1114111

\* chr(i) of a capital letter
chr(i) ==
    <<"A", "B", "C", "D", "E", "F", "G", "H", "I", "J", "K", "L", "M", "N", "O", "P", "Q",
      "R", "S", "T", "U", "V", "W", "X", "Y", "Z">>[i - 64]

format(value, spec) ==
    IF spec = <<"c">> THEN <<chr(Mantissa(value))>>
    ELSE IF spec = <<"d">> THEN IntStr(Mantissa(value))
    ELSE FixedFormat(Mantissa(value), Scale(value),
                     DigitPartValue(SubSeq(spec, 2, Len(spec) - 1), 0))

\* replace_placeholder for a name of the context: format_spec is group 2,
\* empty when the placeholder has none
FormatValue(value, format_spec) ==
    IF format_spec # <<>> /\ FormatOverflows(value, Tail(format_spec))
    THEN Raise("OverflowError")
    ELSE IF format_spec # <<>> /\ ~FormatRaises(value, Tail(format_spec))
    THEN format(value, Tail(format_spec))
    ELSE str(value)

\* replace_placeholder on the match from i to close, the name ending before j
Placeholder(s, i, j, close, context) ==
    IF SubSeq(s, i + 1, j - 1) \notin DOMAIN context THEN SubSeq(s, i, close)
    ELSE FormatValue(context[SubSeq(s, i + 1, j - 1)], SubSeq(s, j, close - 1))

\* _TEMPLATE_PATTERN.sub(replace_placeholder, template) from position i on
\* The replacement followed by the rest, or the exception of the first
\* replacement that raises
Joined(replacement, rest) ==
    IF Raises(replacement) THEN replacement
    ELSE IF Raises(rest) THEN rest
    ELSE replacement \o rest

RECURSIVE replace_placeholder(_, _, _)
PlaceholderAt(s, i, j, close, context) ==
    IF close = 0 THEN Joined(<<s[i]>>, replace_placeholder(s, i + 1, context))
    ELSE Joined(Placeholder(s, i, j, close, context), replace_placeholder(s, close + 1, context))

TemplateAt(s, i, j, context) ==
    PlaceholderAt(s, i, j, TemplateClose(s, i, j, NextClose(s, j + 1)), context)

replace_placeholder(s, i, context) ==
    IF i > Len(s) THEN <<>> ELSE TemplateAt(s, i, WordEnd(s, i + 1), context)

render_template(template, context) == replace_placeholder(template, 1, context)

(***************************************************************************)
(* eval(substituted, {"__builtins__": {}}, {}) on a text of the characters  *)
(* 0123456789.+-*/ () : the Python expression grammar over numbers,         *)
(* parentheses and the operators + - * / // **.  A value of the evaluation  *)
(* is an int, a float, the empty tuple () or the exception raised.  The     *)
(* arithmetic is the one of Python where the float operands are held        *)
(* exactly by a double and the result is a decimal of few digits; the       *)
(* other cases have no arm.                                                 *)
(***************************************************************************)
TupleV == <<"tuple">>
IsFloat(x) == TypeOf(x) = "float"

\* The tokens of the text from position i on.  A number is digits with at
\* most one "."; an int literal other than zero has no leading zero.
RECURSIVE NumberEnd(_, _, _)
NumberEnd(s, i, dots) ==
    IF i > Len(s) THEN i
    ELSE IF s[i] \in Digits THEN NumberEnd(s, i + 1, dots)
    ELSE IF s[i] = "." /\ dots = 0 THEN NumberEnd(s, i + 1, 1)
    ELSE i

NumberToken(literal) ==
    IF literal = <<".">> THEN <<"bad">>
    ELSE IF Find(<<".">>, literal) > 0 THEN <<"num", FloatValue(literal)>>
    ELSE IF literal[1] = "0" /\ DigitPartValue(literal, 0) # 0 THEN <<"bad">>
    ELSE <<"num", IntValue(literal)>>

RECURSIVE Tokens(_, _)
NumberAt(s, i, end) == <<NumberToken(SubSeq(s, i, end - 1))>> \o Tokens(s, end)

Tokens(s, i) ==
    IF i > Len(s) THEN <<>>
    ELSE IF s[i] = " " THEN Tokens(s, i + 1)
    ELSE IF s[i] \in Digits \cup {"."} THEN NumberAt(s, i, NumberEnd(s, i, 0))
    ELSE IF i < Len(s) /\ SubSeq(s, i, i + 1) \in {<<"*", "*">>, <<"/", "/">>}
         THEN <<<<"op", SubSeq(s, i, i + 1)>>>> \o Tokens(s, i + 2)
    ELSE <<<<"op", <<s[i]>>>>>> \o Tokens(s, i + 1)

Tok(toks, i) == IF i <= Len(toks) THEN toks[i] ELSE <<"end">>
IsOp(tok, ops) == tok[1] = "op" /\ tok[2] \in ops

\* A double that holds the decimal exactly
Exact(x) == TypeOf(x) = "int" \/ Mantissa(x) % Pow5(Scale(x)) = 0

Number(is_float, m, e) == IF is_float THEN FloatV(m, e) ELSE IntV(m)
Aligned(x, e) == Mantissa(x) * Pow10(e - Scale(x))
MaxScale(a, b) == IF Scale(a) > Scale(b) THEN Scale(a) ELSE Scale(b)

RECURSIVE IntPow(_, _)
IntPow(m, n) == IF n = 0 THEN 1 ELSE m * IntPow(m, n - 1)

Abs(n) == IF n < 0 THEN -n ELSE n

\* A float result that is zero with a negative operand is -0.0
NegativeZero(is_float, m, a, b) ==
    is_float /\ m = 0 /\ (Mantissa(a) < 0 \/ Mantissa(b) < 0)

Add(a, b, e) == Number(IsFloat(a) \/ IsFloat(b), Aligned(a, e) + Aligned(b, e), e)
Sub(a, b, e) == Number(IsFloat(a) \/ IsFloat(b), Aligned(a, e) - Aligned(b, e), e)

Mul(a, b) ==
    CASE ~NegativeZero(IsFloat(a) \/ IsFloat(b), Mantissa(a) * Mantissa(b), a, b) ->
            Number(IsFloat(a) \/ IsFloat(b), Mantissa(a) * Mantissa(b), Scale(a) + Scale(b))

\* p / q for q > 0 as a decimal of at most MaxFractionDigits fractional digits
Quotient(p, q) ==
    CASE \E k \in 0..MaxFractionDigits : (p * Pow10(k)) % q = 0 ->
            FloatV((p * Pow10(CHOOSE k \in 0..MaxFractionDigits :
                                  /\ (p * Pow10(k)) % q = 0
                                  /\ \A j \in 0..(k - 1) : (p * Pow10(j)) % q # 0)) \div q,
                   CHOOSE k \in 0..MaxFractionDigits :
                        /\ (p * Pow10(k)) % q = 0
                        /\ \A j \in 0..(k - 1) : (p * Pow10(j)) % q # 0)

\* a / b and a // b as the fraction p / q
Fraction(p, q) == IF q < 0 THEN <<-p, -q>> ELSE <<p, q>>
FractionOf(a, b) == Fraction(Mantissa(a) * Pow10(Scale(b)), Mantissa(b) * Pow10(Scale(a)))

TrueDiv(a, b, f) ==
    CASE Mantissa(b) = 0 -> Raise("ZeroDivisionError")
      [] Mantissa(b) # 0 /\ ~NegativeZero(TRUE, f[1], a, b) -> Quotient(f[1], f[2])

FloorDiv(a, b, f) ==
    IF Mantissa(b) = 0 THEN Raise("ZeroDivisionError")
    ELSE Number(IsFloat(a) \/ IsFloat(b), f[1] \div f[2], 0)

\* a ** n overflows the double: the result is at least 10^309 or 2^1024
Overflows(a, n) ==
    \/ Abs(Mantissa(a)) >= 10 * Pow10(Scale(a)) /\ n >= 309
    \/ Abs(Mantissa(a)) >= 2 * Pow10(Scale(a)) /\ n >= 1024

\* a ** n for an integer n >= 0
PowNatural(a, n, is_float) ==
    CASE is_float /\ Overflows(a, n) -> Raise("OverflowError")
      [] ~(is_float /\ Overflows(a, n)) /\ n <= MaxExponent ->
            Number(is_float, IntPow(Mantissa(a), n), Scale(a) * n)

\* a ** b for an exponent b of integral value
Pow(a, b) ==
    CASE Scale(b) = 0 /\ Mantissa(b) >= 0 ->
            PowNatural(a, Mantissa(b), IsFloat(a) \/ IsFloat(b))
      [] Scale(b) = 0 /\ Mantissa(b) < 0 /\ Mantissa(a) = 0 -> Raise("ZeroDivisionError")
      [] Scale(b) = 0 /\ Mantissa(b) < 0 /\ Mantissa(a) # 0 /\ -Mantissa(b) <= MaxExponent ->
            Quotient(Fraction(Pow10(Scale(a) * (-Mantissa(b))),
                              IntPow(Mantissa(a), -Mantissa(b)))[1],
                     Fraction(Pow10(Scale(a) * (-Mantissa(b))),
                              IntPow(Mantissa(a), -Mantissa(b)))[2])

\* The operation on two numbers
Arithmetic(op, a, b) ==
    CASE op = <<"+">> /\ Exact(a) /\ Exact(b) -> Add(a, b, MaxScale(a, b))
      [] op = <<"-">> /\ Exact(a) /\ Exact(b) -> Sub(a, b, MaxScale(a, b))
      [] op = <<"*">> /\ Exact(a) /\ Exact(b) -> Mul(a, b)
      [] op = <<"/">> /\ Exact(a) /\ Exact(b) -> TrueDiv(a, b, FractionOf(a, b))
      [] op = <<"/", "/">> /\ Exact(a) /\ Exact(b) -> FloorDiv(a, b, FractionOf(a, b))
      [] op = <<"*", "*">> /\ Exact(a) /\ Exact(b) -> Pow(a, b)

\* The operation when an operand is the empty tuple: () + () and () * int
\* are (), the others raise TypeError
TupleArithmetic(op, a, b) ==
    IF \/ op = <<"+">> /\ a = TupleV /\ b = TupleV
       \/ op = <<"*">> /\ {TypeOf(a), TypeOf(b)} = {"tuple", "int"}
    THEN TupleV ELSE Raise("TypeError")

\* left op right: the operands are evaluated first, the left one before
BinaryOp(op, a, b) ==
    IF IsRaise(a) THEN a
    ELSE IF IsRaise(b) THEN b
    ELSE IF a = TupleV \/ b = TupleV THEN TupleArithmetic(op, a, b)
    ELSE Arithmetic(op, a, b)

UnaryOp(op, a) ==
    CASE IsRaise(a) -> a
      [] a = TupleV -> Raise("TypeError")
      [] IsNumber(a) /\ op = <<"+">> -> a
      [] IsNumber(a) /\ op = <<"-">> /\ ~(IsFloat(a) /\ Mantissa(a) = 0) ->
            Number(IsFloat(a), -Mantissa(a), Scale(a))

\* A call f(...) of a number or a tuple raises TypeError
CallOp(f, args) ==
    IF IsRaise(f) THEN f
    ELSE IF \E i \in DOMAIN args : IsRaise(args[i])
         THEN args[CHOOSE i \in DOMAIN args : IsRaise(args[i]) /\ \A j \in 1..(i - 1) : ~IsRaise(args[j])]
    ELSE Raise("TypeError")

\* The parser: the result of a rule is whether the text matches (ok), the
\* value of the matched expression (v) and the position after it (i).
NoParse == [ok |-> FALSE, v |-> NoneV, i |-> 0]
Parsed(v, i) == [ok |-> TRUE, v |-> v, i |-> i]

RECURSIVE ParseArith(_, _), ArithRest(_, _), ParseTerm(_, _), TermRest(_, _),
          ParseFactor(_, _), ParsePower(_, _), ParsePrimary(_, _), Trailers(_, _),
          ParseAtom(_, _)

CloseParen(toks, r) ==
    IF r.ok /\ IsOp(Tok(toks, r.i), {<<")">>}) THEN Parsed(r.v, r.i + 1) ELSE NoParse

Binary(op, left, right) ==
    IF right.ok THEN Parsed(BinaryOp(op, left.v, right.v), right.i) ELSE NoParse

Unary(op, operand) ==
    IF operand.ok THEN Parsed(UnaryOp(op, operand.v), operand.i) ELSE NoParse

CallWith(f, arg) ==
    IF arg.ok THEN Parsed(CallOp(f.v, <<arg.v>>), arg.i) ELSE NoParse

\* atom: NUMBER | "(" ")" | "(" arith ")"
ParseAtom(toks, i) ==
    IF Tok(toks, i)[1] = "num" THEN Parsed(Tok(toks, i)[2], i + 1)
    ELSE IF ~IsOp(Tok(toks, i), {<<"(">>}) THEN NoParse
    ELSE IF IsOp(Tok(toks, i + 1), {<<")">>}) THEN Parsed(TupleV, i + 2)
    ELSE CloseParen(toks, ParseArith(toks, i + 1))

\* primary: atom ("(" [arith] ")")*
Trailers(toks, r) ==
    IF ~r.ok THEN NoParse
    ELSE IF ~IsOp(Tok(toks, r.i), {<<"(">>}) THEN r
    ELSE IF IsOp(Tok(toks, r.i + 1), {<<")">>})
         THEN Trailers(toks, Parsed(CallOp(r.v, <<>>), r.i + 2))
    ELSE Trailers(toks, CallWith(r, CloseParen(toks, ParseArith(toks, r.i + 1))))

ParsePrimary(toks, i) == Trailers(toks, ParseAtom(toks, i))

\* power: primary ["**" factor]
PowerRest(toks, r) ==
    IF ~r.ok THEN NoParse
    ELSE IF IsOp(Tok(toks, r.i), {<<"*", "*">>})
         THEN Binary(<<"*", "*">>, r, ParseFactor(toks, r.i + 1))
    ELSE r

ParsePower(toks, i) == PowerRest(toks, ParsePrimary(toks, i))

\* factor: ("+" | "-") factor | power
ParseFactor(toks, i) ==
    IF IsOp(Tok(toks, i), {<<"+">>, <<"-">>})
    THEN Unary(Tok(toks, i)[2], ParseFactor(toks, i + 1))
    ELSE ParsePower(toks, i)

\* term: factor (("*" | "/" | "//") factor)*
TermRest(toks, r) ==
    IF ~r.ok THEN NoParse
    ELSE IF IsOp(Tok(toks, r.i), {<<"*">>, <<"/">>, <<"/", "/">>})
         THEN TermRest(toks, Binary(Tok(toks, r.i)[2], r, ParseFactor(toks, r.i + 1)))
    ELSE r

ParseTerm(toks, i) == TermRest(toks, ParseFactor(toks, i))

\* arith: term (("+" | "-") term)*
ArithRest(toks, r) ==
    IF ~r.ok THEN NoParse
    ELSE IF IsOp(Tok(toks, r.i), {<<"+">>, <<"-">>})
         THEN ArithRest(toks, Binary(Tok(toks, r.i)[2], r, ParseTerm(toks, r.i + 1)))
    ELSE r

ParseArith(toks, i) == ArithRest(toks, ParseTerm(toks, i))

\* The whole text is one expression, or the text is a SyntaxError
WholeExpression(toks, r) ==
    IF r.ok /\ r.i = Len(toks) + 1 THEN r.v ELSE Raise("SyntaxError")

ParseTokens(toks) == WholeExpression(toks, ParseArith(toks, 1))

eval(source) == ParseTokens(Tokens(source, 1))

\* float(s) of any str: the model covers the texts that are neither in
\* exponent form nor a name of infinity or of nan.
float_raises(s) ==
    CASE ~IsExponentForm(s)
         /\ lower(Unsigned(s)) \notin {<<"i", "n", "f">>, <<"n", "a", "n">>,
                                       <<"i", "n", "f", "i", "n", "i", "t", "y">>} ->
            IF Find(<<".">>, s) > 0 THEN FloatRaises(s) ELSE IntRaises(s)

float(s) == IF Find(<<".">>, s) > 0 THEN FloatValue(s) ELSE FloatV(IntValue(s)[2], 0)

\* The characters evaluate_formula lets eval see
allowed == {"0", "1", "2", "3", "4", "5", "6", "7", "8", "9", ".", "+", "-", "*", "/", " ", "(", ")"}

\* The exceptions evaluate_formula catches around eval
Caught == {"SyntaxError", "NameError", "TypeError", "ZeroDivisionError"}

\* The branch of the text with a character that is not allowed
NumericOrText(substituted) ==
    IF float_raises(strip(substituted)) THEN StrV(substituted) ELSE float(strip(substituted))

\* The branch of the evaluated text: the value, the text when eval raised
\* an exception that is caught, the exception otherwise
Evaluated(substituted, outcome) ==
    IF IsRaise(outcome) /\ outcome[2] \in Caught THEN StrV(substituted) ELSE outcome

FormulaOf(substituted) ==
    IF \E i \in DOMAIN substituted : substituted[i] \notin allowed
    THEN NumericOrText(substituted)
    ELSE Evaluated(substituted, eval(substituted))

\* evaluate_formula returns a value, or is left by the exception it returns
evaluate_formula(expr, context) == FormulaOf(_substitute_variables(expr, context))

\* A VariableCondition and a VariableConfig: when, value, format and expr
\* are None or a str.
VariableCondition(when, value, fmt) == [when |-> when, value |-> value, format |-> fmt]
VariableConfig(type, expr, conditions) ==
    [type |-> type, expr |-> expr, conditions |-> conditions]

\* As ConditionResult, with the format before the value
ConditionResultFormatFirst(cond, context) ==
    IF cond.format # NoneV THEN StrV(render_template(cond.format[2], context))
    ELSE IF cond.value # NoneV THEN cond.value
    ELSE NoneV

\* The value of a condition that applies
\* The str that render_template returns, or the exception it raises
Rendered(text) == IF Raises(text) THEN text ELSE StrV(text)

ConditionResult(cond, context) ==
    IF cond.value # NoneV THEN cond.value
    ELSE IF cond.format # NoneV THEN Rendered(render_template(cond.format[2], context))
    ELSE NoneV

\* The loop over var_config.conditions from index i on
RECURSIVE ResolveConditional(_, _, _)
ResolveConditional(conditions, i, context) ==
    IF i > Len(conditions) THEN NoneV
    ELSE IF conditions[i].when = NoneV \/ evaluate_condition(conditions[i].when, context)
         THEN ConditionResult(conditions[i], context)
    ELSE ResolveConditional(conditions, i + 1, context)

\* resolve_variable returns a value, or is left by the exception that
\* evaluate_formula raised.
resolve_variable(var_config, context) ==
    CASE var_config.type = "direct" ->
            IF bool(var_config.expr)
            THEN Get(context, strip_chars(var_config.expr[2], {"{", "}"}), var_config.expr)
            ELSE NoneV
      [] var_config.type = "formula" ->
            IF bool(var_config.expr)
            THEN evaluate_formula(var_config.expr[2], context)
            ELSE NoneV
      [] var_config.type = "conditional" ->
            ResolveConditional(var_config.conditions, 1, context)
      [] var_config.type \notin {"direct", "formula", "conditional"} -> NoneV

\* As ResolveVariables, with every variable resolved in the context of the
\* sensor data alone
RECURSIVE ResolveIndependently(_, _, _)
ResolveIndependently(variables, i, context) ==
    IF i > Len(variables) THEN context
    ELSE SetItem(ResolveIndependently(variables, i + 1, context),
                 variables[i][1], resolve_variable(variables[i][2], context))

\* variables is a dict in insertion order: a sequence of <<name, config>>.
\* context[var_name] = value, then the next variable; an exception raised
\* by resolve_variable leaves build_context.
RECURSIVE ResolveVariables(_, _, _)
InsertResolved(variables, i, context, value) ==
    IF IsRaise(value) THEN value
    ELSE ResolveVariables(variables, i + 1, SetItem(context, variables[i][1], value))

ResolveVariables(variables, i, context) ==
    IF i > Len(variables) THEN context
    ELSE InsertResolved(variables, i, context, resolve_variable(variables[i][2], context))

build_context(sensor_data, variables) == ResolveVariables(variables, 1, sensor_data)

ColorRule(color, when) == [color |-> color, when |-> when]

\* As evaluate_color_rules, with the last rule that matches instead of the first
RECURSIVE LastMatchingColor(_, _, _)
LastMatchingColor(rules, context, default_color) ==
    IF rules = <<>> THEN default_color
    ELSE IF rules[Len(rules)].when = NoneV
            \/ evaluate_condition(rules[Len(rules)].when, context)
         THEN rules[Len(rules)].color
    ELSE LastMatchingColor(SubSeq(rules, 1, Len(rules) - 1), context, default_color)

RECURSIVE evaluate_color_rules(_, _, _)
evaluate_color_rules(rules, context, default_color) ==
    IF rules = <<>> THEN default_color
    ELSE IF Head(rules).when = NoneV \/ evaluate_condition(Head(rules).when, context)
         THEN Head(rules).color
    ELSE evaluate_color_rules(Tail(rules), context, default_color)

(***************************************************************************)
(* overlays.py                                                             *)
(***************************************************************************)
\* The names of the fields of SensorData, in the order of the dataclass
laser_distance == <<"l", "a", "s", "e", "r", "_", "d", "i", "s", "t", "a", "n", "c", "e">>
laser_active == <<"l", "a", "s", "e", "r", "_", "a", "c", "t", "i", "v", "e">>
pressure_manifold == <<"p", "r", "e", "s", "s", "u", "r", "e", "_", "m", "a", "n", "i", "f", "o", "l", "d">>
pressure_base == <<"p", "r", "e", "s", "s", "u", "r", "e", "_", "b", "a", "s", "e">>
robot_status == <<"r", "o", "b", "o", "t", "_", "s", "t", "a", "t", "u", "s">>
is_manual_review == <<"i", "s", "_", "m", "a", "n", "u", "a", "l", "_", "r", "e", "v", "i", "e", "w">>

FieldNames ==
    <<laser_distance, laser_active, pressure_manifold, pressure_base,
      robot_status, is_manual_review>>

EmptyDict == [k \in {} |-> NoneV]

\* SensorData(): the six fields at their defaults.  custom holds the
\* fields that set() stores.
SensorData ==
    [laser_distance |-> FloatV(350, 1),
     laser_active |-> BoolV(TRUE),
     pressure_manifold |-> FloatV(5, 1),
     pressure_base |-> FloatV(3, 1),
     robot_status |-> StrV(<<"S", "t", "o", "p", "p", "e", "d">>),
     is_manual_review |-> BoolV(FALSE),
     custom |-> EmptyDict]

\* SensorData.cache_key
cache_key(self) ==
    <<self.laser_distance, self.laser_active, self.pressure_manifold,
      self.pressure_base, self.robot_status, self.is_manual_review>>

\* getattr(self, name) for the name of a field
getattr(self, name) ==
    CASE name = laser_distance -> self.laser_distance
      [] name = laser_active -> self.laser_active
      [] name = pressure_manifold -> self.pressure_manifold
      [] name = pressure_base -> self.pressure_base
      [] name = robot_status -> self.robot_status
      [] name = is_manual_review -> self.is_manual_review

\* SensorData.to_dict: asdict over the fields of the dataclass
to_dict(self) ==
    [name \in {FieldNames[i] : i \in DOMAIN FieldNames} |-> getattr(self, name)]

\* setattr(self, name, value) for the name of a field
setattr(self, name, value) ==
    CASE name = laser_distance -> [self EXCEPT !.laser_distance = value]
      [] name = laser_active -> [self EXCEPT !.laser_active = value]
      [] name = pressure_manifold -> [self EXCEPT !.pressure_manifold = value]
      [] name = pressure_base -> [self EXCEPT !.pressure_base = value]
      [] name = robot_status -> [self EXCEPT !.robot_status = value]
      [] name = is_manual_review -> [self EXCEPT !.is_manual_review = value]

\* SensorData.set(name, value): stores a custom field
set(self, name, value) == [self EXCEPT !.custom = SetItem(@, name, value)]

\* MultiViewComposer.update_dynamic_data(name=value): a field of the
\* dataclass is assigned, any other name is stored with set().
update_dynamic_data(self, name, value) ==
    IF \E i \in DOMAIN FieldNames : FieldNames[i] = name
    THEN setattr(self, name, value)
    ELSE set(self, name, value)

White == <<255, 255, 255>>
NoColor == <<>>
NoStyle == [box_height |-> 0]
NoKey == NoneV
NoText == <<>>

OverlayStyle(box_height) == [box_height |-> box_height]
default_overlay_style == OverlayStyle(40)

TextOverlayConfig(id, template, cameras, variables, color_rules, color, style, visible_when) ==
    [id |-> id, template |-> template, cameras |-> cameras, variables |-> variables,
     color_rules |-> color_rules, color |-> color, style |-> style,
     visible_when |-> visible_when]

\* a == b of two tuples of Python values
TupleEq(a, b) == Len(a) = Len(b) /\ \A i \in DOMAIN a : PyEq(a[i], b[i])

\* Equality of two keys (overlay id, cache key) of _overlay_cache
FullKeyEq(k1, k2) == k1[1] = k2[1] /\ TupleEq(k1[2], k2[2])

\* _overlay_cache is a set of entries [key, value]; a dict finds the entry
\* whose key equals (==) the key looked up.
CacheHits(cache, full_key) == {entry \in cache : FullKeyEq(entry.key, full_key)}

\* The color of a visible overlay: the static color, else the color rules,
\* else white
OverlayColor(overlay_config, context) ==
    IF overlay_config.color # NoColor THEN overlay_config.color
    ELSE IF overlay_config.color_rules # <<>>
         THEN evaluate_color_rules(overlay_config.color_rules, context, White)
    ELSE White

OverlayVisible(overlay_config, context) ==
    IF bool(overlay_config.visible_when)
    THEN evaluate_condition(overlay_config.visible_when, context)
    ELSE TRUE

\* The result of _compute_overlay on a miss, from the context it built
ComputedResult(overlay_config, context) ==
    IF OverlayVisible(overlay_config, context)
    THEN <<render_template(overlay_config.template, context),
           OverlayColor(overlay_config, context), TRUE>>
    ELSE <<NoText, White, FALSE>>

\* A store that evicts the other entries of the cache.
StoreEvicting(cache, full_key, result) ==
    [result |-> result,
     cache |-> {[key |-> full_key, value |-> result]},
     computed |-> TRUE]

\* _overlay_cache[full_key] = result; return result
Store(cache, full_key, result) ==
    [result |-> result,
     cache |-> {entry \in cache : ~FullKeyEq(entry.key, full_key)}
               \cup {[key |-> full_key, value |-> result]},
     computed |-> TRUE]

\* return _overlay_cache[full_key]
Stored(cache, full_key) ==
    [result |-> (CHOOSE entry \in CacheHits(cache, full_key) : TRUE).value,
     cache |-> cache,
     computed |-> FALSE]

ComputeAndStore(overlay_config, sensor_data, full_key, cache) ==
    Store(cache, full_key,
          ComputedResult(overlay_config, build_context(sensor_data, overlay_config.variables)))

\* As _compute_overlay, but without the cache check: every call computes
\* and stores its result.
compute_overlay_always(overlay_config, sensor_data, key, cache) ==
    ComputeAndStore(overlay_config, sensor_data, <<overlay_config.id, key>>, cache)

\* _compute_overlay returns the triple (text, color, visible), the cache
\* after the call, and whether the call built a context (computed).
_compute_overlay(overlay_config, sensor_data, key, cache) ==
    IF CacheHits(cache, <<overlay_config.id, key>>) # {}
    THEN Stored(cache, <<overlay_config.id, key>>)
    ELSE ComputeAndStore(overlay_config, sensor_data, <<overlay_config.id, key>>, cache)

\* The branch of draw_text_overlay without a cache key, from the context it
\* built: a hidden overlay has neither text nor color.
DirectResult(overlay_config, context) ==
    IF OverlayVisible(overlay_config, context)
    THEN <<render_template(overlay_config.template, context),
           OverlayColor(overlay_config, context), TRUE>>
    ELSE <<NoText, NoColor, FALSE>>

compute_directly(overlay_config, sensor_data, cache) ==
    [result |-> DirectResult(overlay_config,
                             build_context(sensor_data, overlay_config.variables)),
     cache |-> cache,
     computed |-> TRUE]

\* draw_text_box: the image is the sequence of the boxes drawn on it
draw_text_box(img, text, y_offset, color, style) ==
    Append(img, [text |-> text, y_offset |-> y_offset, color |-> color,
                 box_height |-> style.box_height])

\* The end of draw_text_overlay, once text, color and visible are known
DrawComputed(img, y_offset, style, outcome) ==
    [y_offset |-> IF outcome.result[3] THEN y_offset + style.box_height ELSE y_offset,
     img |-> IF outcome.result[3]
             THEN draw_text_box(img, outcome.result[1], y_offset, outcome.result[2], style)
             ELSE img,
     cache |-> outcome.cache,
     text |-> outcome.result[1], color |-> outcome.result[2],
     visible |-> outcome.result[3], computed |-> outcome.computed]

\* draw_text_overlay returns the new y_offset; img and cache are the image
\* and _overlay_cache after the call.
draw_text_overlay(img, overlay_config, sensor_data, y_offset, default_style, key, cache) ==
    DrawComputed(img, y_offset,
        IF overlay_config.style # NoStyle THEN overlay_config.style ELSE default_style,
        IF key # NoKey THEN _compute_overlay(overlay_config, sensor_data, key, cache)
        ELSE compute_directly(overlay_config, sensor_data, cache))


\* CentermarkConfig: size_ratio 0.025 is held in thousandths
CentermarkConfig(enabled) ==
    [enabled |-> enabled, size_ratio |-> 25, thickness |-> 4, color |-> <<255, 0, 255>>]

\* ViewerConfig: its text overlays, its default overlay style and its
\* centermark (the default of the dataclass unless set)
ViewerConfig(overlays, style) ==
    [text_overlays |-> overlays, default_overlay_style |-> style,
     centermark |-> CentermarkConfig(TRUE)]

\* cv2.line(img, pt1, pt2, color, thickness)
Line(pt1, pt2, config) ==
    [pt1 |-> pt1, pt2 |-> pt2, color |-> config.color, thickness |-> config.thickness]

\* The two lines of the crosshair on an image of the shape (h, w):
\* cx, cy = w // 2, h // 2 and size = int(w * config.size_ratio)
Crosshair(cx, cy, size, config) ==
    <<Line(<<cx - size, cy>>, <<cx + size, cy>>, config),
      Line(<<cx, cy - size>>, <<cx, cy + size>>, config)>>

\* A centermark that is drawn whether enabled or not.
draw_centermark_always(lines, shape, config) ==
    lines \o Crosshair(shape[2] \div 2, shape[1] \div 2,
                       (shape[2] * config.size_ratio) \div 1000, config)

\* draw_centermark(img, config): lines is the sequence of the lines drawn on
\* the image, shape its (height, width)
draw_centermark(lines, shape, config) ==
    IF ~config.enabled THEN lines
    ELSE lines \o Crosshair(shape[2] \div 2, shape[1] \div 2,
                            (shape[2] * config.size_ratio) \div 1000, config)

\* cv2.rectangle(img, (0, y_offset), (w, y_offset + style.box_height), ...,
\* -1) fills the rectangle with both corners included: the rows of the image
\* that the background of a box covers
BoxRows(box) == box.y_offset..(box.y_offset + box.box_height)

\* draw_camera_overlays before its loop: y_offset = 0, nothing drawn
Undrawn(img, cache) ==
    [y_offset |-> 0, img |-> img, cache |-> cache, text |-> NoText, color |-> NoColor,
     visible |-> FALSE, computed |-> FALSE]

\* One turn of the loop of draw_camera_overlays
DrawNext(overlay, camera_name, sensor_dict, default_style, key, drawn) ==
    IF \E i \in DOMAIN overlay.cameras : overlay.cameras[i] = camera_name
    THEN draw_text_overlay(drawn.img, overlay, sensor_dict, drawn.y_offset, default_style,
                           key, drawn.cache)
    ELSE drawn

RECURSIVE DrawOverlaysFrom(_, _, _, _, _, _, _)
DrawOverlaysFrom(overlays, i, camera_name, sensor_dict, default_style, key, drawn) ==
    IF i > Len(overlays) THEN drawn
    ELSE DrawOverlaysFrom(overlays, i + 1, camera_name, sensor_dict, default_style, key,
            DrawNext(overlays[i], camera_name, sensor_dict, default_style, key, drawn))

\* Text overlays drawn on every layout index.
draw_on_every_index(img, camera_name, self, config, tree_index, cache) ==
    DrawOverlaysFrom(config.text_overlays, 1, camera_name, to_dict(self),
                     config.default_overlay_style, cache_key(self), Undrawn(img, cache))

\* The first step of draw_camera_overlays:
\* if draw_centermark_flag: draw_centermark(img, config.centermark)
CentermarkStep(lines, shape, config, draw_centermark_flag) ==
    IF draw_centermark_flag THEN draw_centermark(lines, shape, config.centermark)
    ELSE lines

\* draw_camera_overlays(img, camera_name, sensor_data, config, tree_index)
\* after the centermark step:
\* the text overlays are drawn on tree_index 0 only.  The image is the
\* sequence of its text boxes; y_offset is the offset after the last overlay.
draw_camera_overlays(img, camera_name, self, config, tree_index, cache) ==
    IF tree_index # 0 THEN Undrawn(img, cache)
    ELSE DrawOverlaysFrom(config.text_overlays, 1, camera_name, to_dict(self),
                          config.default_overlay_style, cache_key(self), Undrawn(img, cache))

(***************************************************************************)
(* The layout configurations and camera resolutions the model draws from.  *)
(***************************************************************************)
ConfigDirections == {"horizontal", "vertical"}

Leaf(c) == CameraConfigNode(c)

CameraOrder == <<"A", "B", "C", UnknownCamera>>
CameraAt(i) == CameraOrder[((i - 1) % Len(CameraOrder)) + 1]

\* A junction of n leaves; n < 2 is a malformed junction.
FlatConfig(d, n) == JunctionConfigNode(d, [i \in 1..n |-> Leaf(CameraAt(i))])

LayoutConfigs ==
    {Leaf("A"), Leaf(UnknownCamera)}
    \cup {FlatConfig(d, n) : d \in ConfigDirections, n \in 0..MaxChildren}
    \cup {JunctionConfigNode(NoDirection, <<Leaf("A"), Leaf("B")>>)}
    \cup {JunctionConfigNode(d1, <<JunctionConfigNode(d2, <<Leaf("A"), Leaf("B")>>),
                                   Leaf("C")>>) :
            d1 \in ConfigDirections, d2 \in ConfigDirections}
    \cup {JunctionConfigNode(d1, <<Leaf("A"),
                                   JunctionConfigNode(d2, <<Leaf("B"), Leaf("C")>>)>>) :
            d1 \in ConfigDirections, d2 \in ConfigDirections}
    \cup {JunctionConfigNode(d1, <<Leaf("A"), Leaf("B"),
                                   JunctionConfigNode(d2, <<Leaf("C"),
                                                            Leaf(UnknownCamera)>>)>>) :
            d1 \in ConfigDirections, d2 \in ConfigDirections}
    \cup {JunctionConfigNode(d1,
            <<JunctionConfigNode(d2,
                <<JunctionConfigNode(d3, <<Leaf("A"), Leaf("A")>>), Leaf("B")>>),
              Leaf("C")>>) :
            d1 \in ConfigDirections, d2 \in ConfigDirections, d3 \in ConfigDirections}
    \cup {JunctionConfigNode(d1, <<Leaf("A"),
                                   JunctionConfigNode(d2, <<Leaf("A"), Leaf("B")>>)>>) :
            d1 \in ConfigDirections, d2 \in ConfigDirections}
    \cup {JunctionConfigNode(d1, <<Leaf("A"), JunctionConfigNode(d1, <<Leaf("B")>>)>>) :
            d1 \in ConfigDirections}
    \cup {JunctionConfigNode("vertical",
            <<JunctionConfigNode("horizontal",
                <<JunctionConfigNode("vertical",
                    <<JunctionConfigNode("vertical", <<Leaf("A"), Leaf("A")>>), Leaf("B")>>),
                  Leaf("C")>>),
              JunctionConfigNode("vertical", <<Leaf("B")>>)>>)}

\* LayoutManager.__init__: the root and the target sizes of every layout,
\* in the order of the configuration; a layout that fails to build raises.
LayoutManagerOf(outs) ==
    IF \E i \in DOMAIN outs : ~outs[i].ok
    THEN [ok |-> FALSE, num_layouts |-> 0, roots |-> <<>>, target_sizes |-> <<>>]
    ELSE [ok |-> TRUE, num_layouts |-> Len(outs),
          roots |-> [i \in DOMAIN outs |-> outs[i].node],
          target_sizes |-> [i \in DOMAIN outs |-> outs[i].target_sizes]]

LayoutManager(sizes, layout_configs) ==
    LayoutManagerOf([i \in DOMAIN layout_configs |->
                        compute_layout_from_config(layout_configs[i], sizes)])

\* The cameras that the leaves of a layout configuration name
RECURSIVE LayoutCameras(_)
LayoutCameras(config) ==
    IF config.camera # NoCamera THEN {config.camera}
    ELSE UNION {LayoutCameras(config.children[i]) : i \in DOMAIN config.children}

\* CameraConfig of a camera nobody updated: active = False, raw_image = None
NewCamera == [active |-> FALSE, raw_image |-> FALSE]

\* MultiViewComposer(config): the layout manager of the configured layouts
\* and the state of the cameras that the layouts use
MultiViewComposer(sizes, layout_configs) ==
    [layout_manager |-> LayoutManager(sizes, layout_configs),
     cameras |-> [c \in (UNION {LayoutCameras(layout_configs[i]) : i \in DOMAIN layout_configs})
                        \cap DOMAIN sizes |-> NewCamera]]

\* update_camera_image(name, image, active): False for a camera the
\* composer does not have, else the image and the flag are stored
update_camera_image(self, name, active) ==
    IF name \notin DOMAIN self.cameras THEN self
    ELSE [self EXCEPT !.cameras[name] = [active |-> active, raw_image |-> TRUE]]

\* What generate_frame returns from the frames of its layouts, or raises
FramesOf(buffers) ==
    IF \E i \in DOMAIN buffers : ~buffers[i].ok
    THEN [generated |-> TRUE, raised |-> TRUE, buffers |-> <<>>]
    ELSE [generated |-> TRUE, raised |-> FALSE, buffers |-> buffers]

\* generate_frame(): one LayoutManager.concatenate per layout, with the
\* buffer of every camera, its image or a placeholder, at the target size
\* of the layout
generate_frame(self) ==
    FramesOf([i \in 1..self.layout_manager.num_layouts |->
                concatenate(self.layout_manager.roots[i],
                            BufferAccessor(self.layout_manager.target_sizes[i]))])

\* The overlays of generate_frame: draw_camera_overlays for every camera of
\* the composer on the layout 0; the overlay cache after the calls
RECURSIVE OverlayCache(_, _, _, _)
OverlayCache(names, self, config, cache) ==
    IF names = {} THEN cache
    ELSE OverlayCache(names \ {CHOOSE c \in names : TRUE}, self, config,
            draw_camera_overlays(<<>>, CHOOSE c \in names : TRUE, self, config, 0, cache).cache)

\* The resolutions of the end-to-end example: A 480x640, B 720x1280.
ExampleSizes ==
    [c \in Cameras |-> IF c = "B" THEN <<720, 1280>> ELSE <<480, 640>>]

CameraSizes ==
    {[c \in Cameras |-> IF c = "A" THEN a ELSE IF c = "B" THEN b ELSE cc] :
        a \in Heights \X Widths, b \in Heights \X Widths, cc \in Heights \X Widths}
    \cup {ExampleSizes}

(***************************************************************************)
(* The overlay definitions and sensor updates the model draws from.        *)
(* Two configurations are loaded in the process; both define an overlay    *)
(* with the id "laser".                                                    *)
(***************************************************************************)
Red == <<0, 0, 255>>
Green == <<0, 255, 0>>
Yellow == <<0, 255, 255>>

\* id: laser, template: "D:{laser_distance}", red above 44 and green otherwise
LaserOverlay ==
    TextOverlayConfig(<<"l", "a", "s", "e", "r">>, <<"D", ":", "{", "l", "a", "s", "e", "r", "_", "d", "i", "s", "t", "a", "n", "c", "e", "}">>, <<"A">>, <<>>,
        <<ColorRule(Red, StrV(<<"{", "l", "a", "s", "e", "r", "_", "d", "i", "s", "t", "a", "n", "c", "e", "}", " ", ">", " ", "4", "4">>)), ColorRule(Green, NoneV)>>,
        NoColor, NoStyle, NoneV)

\* id: review, template: "REVIEW", visible_when: "{is_manual_review} == true"
ReviewOverlay ==
    TextOverlayConfig(<<"r", "e", "v", "i", "e", "w">>, <<"R", "E", "V", "I", "E", "W">>, <<"A", "B">>, <<>>, <<>>,
        Yellow, NoStyle, StrV(<<"{", "i", "s", "_", "m", "a", "n", "u", "a", "l", "_", "r", "e", "v", "i", "e", "w", "}", " ", "=", "=", " ", "t", "r", "u", "e">>))

\* id: status, template: "S:{state}" with the conditional variable state:
\* "ERR" when "{robot_status} == 'ERROR'", else the format "{robot_status}"
StatusOverlay ==
    TextOverlayConfig(<<"s", "t", "a", "t", "u", "s">>, <<"S", ":", "{", "s", "t", "a", "t", "e", "}">>, <<"B">>,
        << <<<<"s", "t", "a", "t", "e">>,
             VariableConfig("conditional", NoneV,
                <<VariableCondition(StrV(<<"{", "r", "o", "b", "o", "t", "_", "s", "t", "a", "t", "u", "s", "}", " ", "=", "=", " ", "'", "E", "R", "R", "O", "R", "'">>),
                                    StrV(<<"E", "R", "R">>), NoneV),
                  VariableCondition(NoneV, NoneV, StrV(<<"{", "r", "o", "b", "o", "t", "_", "s", "t", "a", "t", "u", "s", "}">>))>>)>> >>,
        <<>>, NoColor, NoStyle, NoneV)

\* The overlay of the second configuration: id: laser, template:
\* "{d:.2f}mm" with the direct variable d: "{laser_distance}", its own style
MillimetreOverlay ==
    TextOverlayConfig(<<"l", "a", "s", "e", "r">>, <<"{", "d", ":", ".", "2", "f", "}", "m", "m">>, <<"A">>,
        << <<<<"d">>, VariableConfig("direct", StrV(<<"{", "l", "a", "s", "e", "r", "_", "d", "i", "s", "t", "a", "n", "c", "e", "}">>), <<>>)>> >>,
        <<>>, NoColor, OverlayStyle(30), NoneV)

\* id: pressure, template: "P:{pressure_manifold:.1f}", a static color and
\* its own style with box_height 30
PressureOverlay ==
    TextOverlayConfig(<<"p", "r", "e", "s", "s", "u", "r", "e">>, <<"P", ":", "{", "p", "r", "e", "s", "s", "u", "r", "e", "_", "m", "a", "n", "i", "f", "o", "l", "d", ":", ".", "1", "f", "}">>, <<"A", "B">>, <<>>,
        <<ColorRule(Red, StrV(<<"{", "p", "r", "e", "s", "s", "u", "r", "e", "_", "m", "a", "n", "i", "f", "o", "l", "d", "}", " ", ">", " ", "0", ".", "4">>))>>, Yellow, OverlayStyle(30), NoneV)

text_overlays == <<LaserOverlay, ReviewOverlay, StatusOverlay>>
other_text_overlays == <<MillimetreOverlay>>

OverlayConfigs ==
    {text_overlays[i] : i \in DOMAIN text_overlays}
    \cup {other_text_overlays[i] : i \in DOMAIN other_text_overlays}
    \cup {PressureOverlay}

\* The configurations of the draw_camera_overlays calls
ViewerConfigs ==
    {ViewerConfig(text_overlays, default_overlay_style),
     ViewerConfig(other_text_overlays, default_overlay_style),
     ViewerConfig(<<PressureOverlay, ReviewOverlay, LaserOverlay, StatusOverlay>>,
                  default_overlay_style),
     ViewerConfig(<<ReviewOverlay, PressureOverlay, StatusOverlay>>, OverlayStyle(25))}

\* The layouts of a composer: one layout, two layouts, a camera without
\* resolution, a camera in two leaves
ComposerLayouts ==
    {<<FlatConfig("horizontal", 2)>>,
     <<FlatConfig("horizontal", 2), JunctionConfigNode("vertical", <<Leaf("A"), Leaf("C")>>)>>,
     <<JunctionConfigNode("vertical", <<Leaf("A"), Leaf(UnknownCamera)>>)>>,
     <<JunctionConfigNode("horizontal",
            <<Leaf("A"), JunctionConfigNode("vertical", <<Leaf("A"), Leaf("B")>>)>>),
       Leaf("C")>>}

(***************************************************************************)
(* config.py: load_config on the document that yaml.safe_load returned.    *)
(* A mapping of the document is a record of the keys it has, a list a      *)
(* sequence; the mappings of layouts are keyed by the layout names.        *)
(***************************************************************************)
\* A successful validation returns None.
Validated == <<"none">>

\* A validation that looks at the node and not at its children.
ValidateNoChildren(children) == Validated

\* for child in data["children"]: _validate_layout_node(child, ...), the
\* first ConfigError ends the loop
RECURSIVE _validate_layout_node(_)
ValidateChildren(children) ==
    IF \E i \in DOMAIN children : _validate_layout_node(children[i]) # Validated
    THEN Raise("ConfigError")
    ELSE Validated

_validate_layout_node(data) ==
    IF "camera" \in DOMAIN data
    THEN \* Leaf node: the camera is a string in every document of the model
         Validated
    ELSE IF "direction" \notin DOMAIN data
    THEN Raise("ConfigError")
    ELSE IF data.direction \notin {"horizontal", "vertical"}
    THEN Raise("ConfigError")
    ELSE IF "children" \notin DOMAIN data \/ data.children = <<>>
    THEN Raise("ConfigError")
    ELSE IF Len(data.children) < 2
    THEN Raise("ConfigError")
    ELSE ValidateChildren(data.children)

_validate_text_overlay(data) ==
    IF "id" \notin DOMAIN data
    THEN Raise("ConfigError")
    ELSE IF "template" \notin DOMAIN data
    THEN Raise("ConfigError")
    ELSE Validated

\* LayoutNodeConfig.from_dict
RECURSIVE LayoutNodeConfig_from_dict(_)
LayoutNodeConfig_from_dict(data) ==
    IF "camera" \in DOMAIN data
    THEN CameraConfigNode(data.camera)
    ELSE LET children == IF "children" \in DOMAIN data THEN data.children ELSE <<>>
         IN  JunctionConfigNode(IF "direction" \in DOMAIN data THEN data.direction
                                ELSE NoDirection,
                                [i \in DOMAIN children |->
                                    LayoutNodeConfig_from_dict(children[i])])

\* data.get("active_layout", "main")
ActiveLayoutOf(data) ==
    IF "active_layout" \in DOMAIN data THEN data.active_layout ELSE "main"

\* data.get("text_overlays", [])
TextOverlaysOf(data) ==
    IF "text_overlays" \in DOMAIN data THEN data.text_overlays ELSE <<>>

\* ViewerConfig.from_dict: the layouts, the active layout and the text
\* overlays of the document
ViewerConfig_from_dict(data) ==
    [layouts |-> [name \in DOMAIN data.layouts |->
                    LayoutNodeConfig_from_dict(data.layouts[name])],
     active_layout |-> ActiveLayoutOf(data),
     text_overlays |-> [i \in DOMAIN TextOverlaysOf(data) |->
                          <<TextOverlaysOf(data)[i].id, TextOverlaysOf(data)[i].template>>]]

\* load_config from the line after data = yaml.safe_load(f), on a document
\* that is a mapping
load_config(data) ==
    IF "layouts" \notin DOMAIN data \/ DOMAIN data.layouts = {}
    THEN Raise("ConfigError")
    ELSE IF \E name \in DOMAIN data.layouts :
                _validate_layout_node(data.layouts[name]) # Validated
    THEN Raise("ConfigError")
    ELSE IF ActiveLayoutOf(data) \notin DOMAIN data.layouts
    THEN Raise("ConfigError")
    ELSE IF \E i \in DOMAIN TextOverlaysOf(data) :
                _validate_text_overlay(TextOverlaysOf(data)[i]) # Validated
    THEN Raise("ConfigError")
    ELSE <<"ViewerConfig", ViewerConfig_from_dict(data)>>

\* MultiViewComposer(config) on a configuration without layouts raises
\* ValueError("No layouts defined"); else the composer is constructed.
ConstructComposer(sizes, layout_configs) ==
    IF layout_configs = <<>>
    THEN Raise("ValueError")
    ELSE <<"int", LayoutManager(sizes, layout_configs).num_layouts>>

\* Viewer configurations with the centermark enabled and disabled
CentermarkViewerConfigs ==
    {[config EXCEPT !.centermark = CentermarkConfig(enabled)] :
        config \in {ViewerConfig(text_overlays, default_overlay_style),
                    ViewerConfig(<<ReviewOverlay, PressureOverlay, StatusOverlay>>,
                                 OverlayStyle(25))},
        enabled \in BOOLEAN}

Composers ==
    {MultiViewComposer(ExampleSizes, layout_configs) : layout_configs \in ComposerLayouts}

temp == <<"t", "e", "m", "p">>

\* The keyword arguments of the update_dynamic_data calls
SensorUpdates ==
    {<<laser_distance, FloatV(350, 1)>>, <<laser_distance, IntV(35)>>,
     <<laser_distance, FloatV(500, 1)>>,
     <<is_manual_review, BoolV(TRUE)>>, <<is_manual_review, BoolV(FALSE)>>,
     <<robot_status, StrV(<<"E", "R", "R", "O", "R">>)>>, <<robot_status, StrV(<<"S", "t", "o", "p", "p", "e", "d">>)>>,
     <<temp, FloatV(250, 1)>>, <<temp, FloatV(300, 1)>>}

(***************************************************************************)
(* The documents load_config is called with.                               *)
(***************************************************************************)
LeafDoc(camera) == [camera |-> camera]
JunctionDoc(direction, children) == [direction |-> direction, children |-> children]

\* Layout nodes of a document: well-formed ones, and junctions without a
\* direction, with a direction that is none of the two, without children,
\* with an empty list of children and with one child, at depths 1 to 3; the
\* last one is a leaf that has a key children as well.
LayoutDocs ==
    <<LeafDoc("A"),
      JunctionDoc("horizontal", <<LeafDoc("A"), LeafDoc("B")>>),
      JunctionDoc("vertical",
                  <<LeafDoc("A"), JunctionDoc("horizontal", <<LeafDoc("B"), LeafDoc("C")>>)>>),
      [children |-> <<LeafDoc("A"), LeafDoc("B")>>],
      JunctionDoc("diagonal", <<LeafDoc("A"), LeafDoc("B")>>),
      [direction |-> "horizontal"],
      JunctionDoc("horizontal", <<>>),
      JunctionDoc("vertical", <<LeafDoc("A")>>),
      JunctionDoc("horizontal", <<LeafDoc("A"), JunctionDoc("vertical", <<LeafDoc("B")>>)>>),
      JunctionDoc("horizontal", <<LeafDoc("A"), [children |-> <<LeafDoc("A"), LeafDoc("B")>>]>>),
      JunctionDoc("horizontal",
                  <<JunctionDoc("vertical",
                                <<LeafDoc("A"), JunctionDoc("sideways", <<LeafDoc("B"), LeafDoc("C")>>)>>),
                    LeafDoc("C")>>),
      JunctionDoc("vertical",
                  <<LeafDoc("A"),
                    JunctionDoc("horizontal", <<LeafDoc("B"), [direction |-> "vertical"]>>)>>),
      [camera |-> "A", children |-> <<LeafDoc("B")>>]>>

EmptyDoc == [key \in {} |-> <<>>]

\* The key layouts of a document: absent, empty, one layout "main", a layout
\* "main" and a second one, one layout that is not "main"
LayoutsOfDoc(shape, node) ==
    CASE shape = "absent" -> EmptyDoc
      [] shape = "empty" -> [layouts |-> EmptyDoc]
      [] shape = "main" -> [layouts |-> [main |-> node]]
      [] shape = "second" -> [layouts |-> [main |-> LeafDoc("A"), second |-> node]]
      [] shape = "other" -> [layouts |-> [other |-> node]]

LayoutShapes == {"absent", "empty", "main", "second", "other"}

\* The key active_layout of a document
ActiveLayoutDocs ==
    <<EmptyDoc, [active_layout |-> "main"], [active_layout |-> "other"],
      [active_layout |-> "nonexistent"]>>

\* The key text_overlays of a document
TextOverlayDocs ==
    <<EmptyDoc,
      [text_overlays |-> <<>>],
      [text_overlays |-> <<[id |-> "laser", template |-> "{laser_distance}"]>>],
      [text_overlays |-> <<[template |-> "{laser_distance}"]>>],
      [text_overlays |-> <<[id |-> "laser"]>>],
      [text_overlays |-> <<[id |-> "laser", template |-> "{laser_distance}"],
                           [id |-> "status"]>>]>>

Document(shape, node, active, overlays) ==
    LayoutsOfDoc(shape, LayoutDocs[node]) @@ ActiveLayoutDocs[active] @@ TextOverlayDocs[overlays]

\* Layout lists a composer is constructed from: the ones of the composers
\* above and the empty one.
ConstructorLayouts == ComposerLayouts \cup {<<>>}

(***************************************************************************)
(* The arguments the functions of the template engine are called with.     *)
(***************************************************************************)
\* A call of the template engine: the function, its arguments and, once the
\* call is done, what it returned.
EngineCall(func, args) == [func |-> func, args |-> args, done |-> FALSE, result |-> NoneV]

NoEngineCall == EngineCall("none", <<>>)

\* A context with one entry
Context(name, value) == SetItem(EmptyDict, name, value)

\* Contexts of scalar values: x is a number, a boolean or a string
ConditionContexts ==
    {Context(<<"x">>, value) :
        value \in {IntV(50), IntV(10), IntV(44), FloatV(445, 1), BoolV(TRUE), BoolV(FALSE),
                   StrV(<<"a", "b", "c">>), StrV(<<"4", "4">>), StrV(<<"a", "<", "=", "b">>), StrV(<<>>)}}
    \cup {EmptyDict}

\* Condition expressions: None, the empty string, comparisons with each
\* operator, boolean literals, names and texts without an operator
ConditionExprs ==
    {NoneV, StrV(<<>>),
     StrV(<<"{", "x", "}", " ", ">", " ", "4", "4">>), StrV(<<"{", "x", "}", " ", ">", "=", " ", "4", "4">>), StrV(<<"{", "x", "}", " ", "<", " ", "4", "4">>), StrV(<<"{", "x", "}", " ", "<", "=", " ", "4", "4">>),
     StrV(<<"{", "x", "}", " ", "=", "=", " ", "4", "4">>), StrV(<<"{", "x", "}", " ", "!", "=", " ", "4", "4">>), StrV(<<"{", "x", "}", "<", "=", "4", "4">>), StrV(<<"4", "4", " ", ">", "=", " ", "{", "x", "}">>),
     StrV(<<"{", "x", "}", " ", "=", "=", " ", "'", "a", "b", "c", "'">>), StrV(<<"{", "x", "}", " ", "=", "=", " ", "t", "r", "u", "e">>), StrV(<<"{", "x", "}", " ", ">", " ", "'", "a", "b", "c", "'">>),
     StrV(<<"{", "x", "}", " ", "<", "=", " ", "'", "a", "b", "d", "'">>), StrV(<<"{", "x", "}", " ", "<", "=", " ", "4", "4", " ", ">", " ", "1">>), StrV(<<"1", " ", "<", " ", "2", " ", "=", "=", " ", "t", "r", "u", "e">>),
     StrV(<<"{", "y", "}", " ", ">", " ", "1">>), StrV(<<"{", "x", "}", " ", "=", "<", " ", "4", "4">>), StrV(<<"{", "x", "}", " ", ">", " ", "4", "4", ".", "5">>),
     StrV(<<"{", "x", "}">>), StrV(<<"x">>), StrV(<<" ", "T", "r", "u", "e", " ">>), StrV(<<"F", "A", "L", "S", "E">>), StrV(<<"n", "o", "t", "h", "i", "n", "g">>)}

ConditionCalls ==
    {EngineCall("evaluate_condition", <<expr, context>>) :
        expr \in ConditionExprs, context \in ConditionContexts}

\* Formulas: arithmetic that evaluates, that fails to parse, that divides
\* by zero, that calls a number, that overflows, and texts that are not
\* arithmetic
FormulaExprs ==
    {<<"{", "x", "}", " ", "*", " ", "2">>, <<"{", "x", "}", " ", "/", " ", "2">>, <<"{", "x", "}", " ", "+", " ", "1">>, <<"{", "x", "}">>, <<"{", "y", "}", " ", "+", " ", "1">>, <<"{", "x", "}", ".", "0", " ", "*", "*", " ", "1", "0", "2", "4">>,
     <<"1", "0", ".", "0", "*", "*", "4", "0", "0">>, <<"2", ".", "0", " ", "*", "*", " ", "1", "0", "2", "4">>, <<"1", "0", ".", "0", "*", "*", "4", "0", "0", " ", "+">>, <<"1", "/", "0", " ", "+", " ", "1", "0", ".", "0", "*", "*", "4", "0", "0">>, <<"1", "/", "0">>, <<"0", "*", "*", "-", "1">>,
     <<"1", " ", "+">>, <<>>, <<"1", " ", "2">>, <<"0", "1">>, <<"(", "1", ")", "(", "2", ")">>, <<"(", ")">>, <<"1", ".", "5">>, <<"7", "/", "/", "2">>, <<"2", "*", "*", "-", "1">>,
     <<"(", "1", " ", "+", " ", "2", ")", " ", "*", " ", "3">>, <<"a", "b", "c">>, <<"1", ".", "5", "x">>}

FormulaContexts ==
    {EmptyDict, Context(<<"x">>, FloatV(350, 1)), Context(<<"x">>, IntV(4)),
     Context(<<"x">>, StrV(<<"a", "b", "c">>)), Context(<<"x">>, FloatV(-225, 2))}

FormulaCalls ==
    {EngineCall("evaluate_formula", <<expr, context>>) :
        expr \in FormulaExprs, context \in FormulaContexts}

\* Variable declarations: a name and its configuration
Direct(name, expr) == <<name, VariableConfig("direct", StrV(expr), <<>>)>>
Formula(name, expr) == <<name, VariableConfig("formula", StrV(expr), <<>>)>>
Conditional(name, conditions) == <<name, VariableConfig("conditional", NoneV, conditions)>>

\* level: HIGH when "{laser_distance} > 44", else LOW
LevelVariable ==
    Conditional(<<"l", "e", "v", "e", "l">>,
        <<VariableCondition(StrV(<<"{", "l", "a", "s", "e", "r", "_", "d", "i", "s", "t", "a", "n", "c", "e", "}", " ", ">", " ", "4", "4">>), StrV(<<"H", "I", "G", "H">>), NoneV),
          VariableCondition(NoneV, StrV(<<"L", "O", "W">>), NoneV)>>)

\* label: the format "{level}:{half}"
LabelVariable ==
    Conditional(<<"l", "a", "b", "e", "l">>, <<VariableCondition(NoneV, NoneV, StrV(<<"{", "l", "e", "v", "e", "l", "}", ":", "{", "h", "a", "l", "f", "}">>))>>)

\* The variables of an overlay in their declaration order: variables that
\* refer to one another, a variable named as a sensor field, a variable
\* that refers to itself
VariableLists ==
    {<<>>,
     <<Direct(<<"a">>, <<"{", "l", "a", "s", "e", "r", "_", "d", "i", "s", "t", "a", "n", "c", "e", "}">>), Formula(<<"h", "a", "l", "f">>, <<"{", "a", "}", " ", "/", " ", "2">>)>>,
     <<Formula(<<"h", "a", "l", "f">>, <<"{", "a", "}", " ", "/", " ", "2">>), Direct(<<"a">>, <<"{", "l", "a", "s", "e", "r", "_", "d", "i", "s", "t", "a", "n", "c", "e", "}">>)>>,
     <<Formula(<<"l", "a", "s", "e", "r", "_", "d", "i", "s", "t", "a", "n", "c", "e">>, <<"{", "l", "a", "s", "e", "r", "_", "d", "i", "s", "t", "a", "n", "c", "e", "}", " ", "*", " ", "2">>), Direct(<<"d">>, <<"{", "l", "a", "s", "e", "r", "_", "d", "i", "s", "t", "a", "n", "c", "e", "}">>)>>,
     <<Direct(<<"d">>, <<"{", "l", "a", "s", "e", "r", "_", "d", "i", "s", "t", "a", "n", "c", "e", "}">>), Formula(<<"l", "a", "s", "e", "r", "_", "d", "i", "s", "t", "a", "n", "c", "e">>, <<"{", "l", "a", "s", "e", "r", "_", "d", "i", "s", "t", "a", "n", "c", "e", "}", " ", "*", " ", "2">>)>>,
     <<LevelVariable, Formula(<<"h", "a", "l", "f">>, <<"{", "l", "a", "s", "e", "r", "_", "d", "i", "s", "t", "a", "n", "c", "e", "}", " ", "/", " ", "2">>), LabelVariable>>,
     <<LabelVariable, LevelVariable, Formula(<<"h", "a", "l", "f">>, <<"{", "l", "a", "s", "e", "r", "_", "d", "i", "s", "t", "a", "n", "c", "e", "}", " ", "/", " ", "2">>)>>,
     <<Formula(<<"h", "a", "l", "f">>, <<"{", "l", "a", "s", "e", "r", "_", "d", "i", "s", "t", "a", "n", "c", "e", "}", " ", "/", " ", "2">>), LabelVariable, LevelVariable>>,
     <<Direct(<<"a">>, <<"{", "a", "}">>)>>,
     <<Direct(<<"a">>, <<"{", "b", "}">>), Direct(<<"b">>, <<"{", "a", "}">>)>>}

\* Conditional variables: several branches that match, a branch with value
\* and format, a branch with neither, no else, an else before a condition,
\* no branch, an empty condition
ConditionLists ==
    {<<VariableCondition(StrV(<<"{", "x", "}", " ", ">", " ", "4", "4">>), StrV(<<"H", "I", "G", "H">>), NoneV),
       VariableCondition(StrV(<<"{", "x", "}", " ", ">", " ", "2", "0">>), StrV(<<"M", "I", "D">>), NoneV),
       VariableCondition(NoneV, StrV(<<"L", "O", "W">>), NoneV)>>,
     <<VariableCondition(StrV(<<"{", "x", "}", " ", ">", " ", "4", "4">>), StrV(<<"H", "I", "G", "H">>), StrV(<<"{", "x", ":", ".", "1", "f", "}">>)),
       VariableCondition(NoneV, NoneV, StrV(<<"{", "x", ":", ".", "1", "f", "}", "m", "m">>))>>,
     <<VariableCondition(StrV(<<"{", "x", "}", " ", ">", " ", "4", "4">>), NoneV, NoneV),
       VariableCondition(NoneV, StrV(<<"L", "O", "W">>), NoneV)>>,
     <<VariableCondition(StrV(<<"{", "x", "}", " ", ">", " ", "4", "4">>), StrV(<<"H", "I", "G", "H">>), NoneV)>>,
     <<VariableCondition(NoneV, StrV(<<"A">>), NoneV),
       VariableCondition(StrV(<<"{", "x", "}", " ", ">", " ", "4", "4">>), StrV(<<"H", "I", "G", "H">>), NoneV)>>,
     <<VariableCondition(StrV(<<>>), StrV(<<"E", "M", "P", "T", "Y">>), NoneV),
       VariableCondition(NoneV, StrV(<<"L", "O", "W">>), NoneV)>>,
     <<VariableCondition(StrV(<<"{", "x", "}", " ", ">", " ", "'", "a", "'">>), NoneV, StrV(<<"<", "{", "x", "}", ">">>)),
       VariableCondition(NoneV, NoneV, NoneV)>>,
     <<>>}

VariableConfigs ==
    {VariableConfig("conditional", NoneV, conditions) : conditions \in ConditionLists}
    \cup {VariableConfig("direct", StrV(<<"{", "x", "}">>), <<>>), VariableConfig("direct", NoneV, <<>>),
          VariableConfig("direct", StrV(<<"{", "y", "}">>), <<>>),
          VariableConfig("formula", StrV(<<"{", "x", "}", " ", "*", " ", "2">>), <<>>), VariableConfig("formula", NoneV, <<>>),
          VariableConfig("other", StrV(<<"{", "x", "}">>), <<>>)}

VariableContexts ==
    {Context(<<"x">>, value) :
        value \in {IntV(50), IntV(30), IntV(10), FloatV(445, 1), StrV(<<"a", "b", "c">>)}}

ResolveVariableCalls ==
    {EngineCall("resolve_variable", <<var_config, context>>) :
        var_config \in VariableConfigs, context \in VariableContexts}

\* Color rules: several rules that match, an unconditional rule last, in
\* the middle and alone, no unconditional rule, no rule
RuleLists ==
    {<<ColorRule(Red, StrV(<<"{", "x", "}", " ", ">", " ", "4", "4">>)), ColorRule(Yellow, StrV(<<"{", "x", "}", " ", ">", " ", "2", "0">>)),
       ColorRule(Green, NoneV)>>,
     <<ColorRule(Red, StrV(<<"{", "x", "}", " ", ">", " ", "4", "4">>)), ColorRule(Yellow, StrV(<<"{", "x", "}", " ", ">", " ", "2", "0">>))>>,
     <<ColorRule(Red, StrV(<<"{", "x", "}", " ", ">", " ", "4", "4">>)), ColorRule(Green, NoneV),
       ColorRule(Yellow, StrV(<<"{", "x", "}", " ", ">", " ", "2", "0">>))>>,
     <<ColorRule(Yellow, StrV(<<"{", "x", "}", " ", "<", "=", " ", "4", "4">>)), ColorRule(Red, StrV(<<"{", "x", "}", " ", ">", "=", " ", "4", "4">>))>>,
     <<ColorRule(Red, StrV(<<"{", "x", "}", " ", "=", "=", " ", "'", "a", "b", "c", "'">>))>>,
     <<ColorRule(Red, StrV(<<>>)), ColorRule(Green, NoneV)>>,
     <<ColorRule(Green, NoneV)>>,
     <<>>}

RuleContexts ==
    {Context(<<"x">>, value) :
        value \in {IntV(50), IntV(44), IntV(30), IntV(10), FloatV(445, 1), StrV(<<"a", "b", "c">>)}}

EvaluateColorRulesCalls ==
    {EngineCall("evaluate_color_rules", <<rules, context, default_color>>) :
        rules \in RuleLists, context \in RuleContexts, default_color \in {White, Yellow}}

\* A template as its pieces: a text without placeholder, or the placeholder
\* of a name with a format spec (empty for none)
Literal(text) == [literal |-> TRUE, text |-> text, name |-> <<>>, spec |-> <<>>]
Hole(name, spec) == [literal |-> FALSE, text |-> <<>>, name |-> name, spec |-> spec]

PieceText(piece) ==
    IF piece.literal THEN piece.text
    ELSE IF piece.spec = <<>> THEN <<"{">> \o piece.name \o <<"}">>
    ELSE <<"{">> \o piece.name \o <<":">> \o piece.spec \o <<"}">>

RECURSIVE TemplateOf(_)
TemplateOf(pieces) ==
    IF pieces = <<>> THEN <<>> ELSE PieceText(Head(pieces)) \o TemplateOf(Tail(pieces))

TemplatePieces ==
    {<<Hole(<<"v">>, <<".", "2", "f">>), Literal(<<"c", "m">>)>>,
     <<Literal(<<"d", "=">>), Hole(<<"x">>, <<>>), Literal(<<" ">>), Hole(<<"y">>, <<>>)>>,
     <<Hole(<<"t">>, <<>>), Hole(<<"x">>, <<>>)>>,
     <<Hole(<<"x">>, <<"d">>)>>,
     <<Literal(<<"{", " ", "x", "}", " ", "{", "}", " ", "{", "x", " ">>), Hole(<<"x">>, <<".", "1", "f">>), Literal(<<"}">>)>>,
     <<Hole(<<"x">>, <<"c">>), Hole(<<"v">>, <<".", "0", "f">>)>>,
     <<Hole(<<"u">>, <<".", "2", "f">>), Hole(<<"x">>, <<".", "3", "f">>)>>,
     <<Literal(<<"p", "l", "a", "i", "n">>)>>,
     <<>>}

\* v is the float 3.14159 and t a text that reads as a placeholder
TemplateContexts ==
    {SetItem(SetItem(Context(<<"x">>, value), <<"v">>, FloatV(314159, 5)), <<"t">>, StrV(<<"{", "x", "}">>)) :
        value \in {IntV(65), IntV(-1), IntV(1114112), FloatV(445, 1), FloatV(-225, 2),
                   StrV(<<"a", "b", "c">>), StrV(<<"{", "v", ":", ".", "2", "f", "}">>), NoneV}}
    \cup {Context(<<"v">>, FloatV(314159, 5)), EmptyDict}

RenderTemplateCalls ==
    {EngineCall("render_template", <<TemplateOf(pieces), context>>) :
        pieces \in TemplatePieces, context \in TemplateContexts}

SensorDicts ==
    {to_dict(SensorData), to_dict(setattr(SensorData, laser_distance, FloatV(500, 1))),
     to_dict(setattr(SensorData, laser_distance, IntV(45)))}

BuildContextCalls ==
    {EngineCall("build_context", <<sensor, variables>>) :
        sensor \in SensorDicts, variables \in VariableLists}

(***************************************************************************)
(* State.                                                                  *)
(***************************************************************************)
VARIABLES
    layout_config,   \* the LayoutNodeConfig of the layout
    camera_sizes,    \* camera name -> (height, width)
    pc,              \* "config", "built", "raised", "composed"
    root,            \* the root LayoutNode once built
    target_sizes,    \* the TargetSizeMap of the layout
    calls,           \* history: the make_junction_node calls of the build
    error,           \* the exception a failed build raised
    frame,           \* the composed frame and the accessor it was composed with
    sensor_data,     \* the SensorData of the composer
    overlay_cache,   \* _overlay_cache
    last,            \* the last draw_text_overlay call and what it returned
    ticks,           \* the number of calls made to the overlay renderer
    engine_call,     \* a call of a function of the template engine or of config.py
    composer,        \* the MultiViewComposer: its layout manager and its cameras
    frames           \* what the last generate_frame call returned

layout_vars == <<layout_config, camera_sizes, pc, root, target_sizes, calls, error, frame>>
overlay_vars == <<sensor_data, overlay_cache, last, ticks>>

engine_vars == <<engine_call>>
composer_vars == <<composer, frames>>

vars == <<layout_vars, overlay_vars, engine_vars, composer_vars>>

NoNode == [camera |-> NoCamera, height |-> 0, width |-> 0]
NoFrame == [accessor |-> "", image |-> Cv2Error]

\* A LayoutManager about to be constructed
LayoutIdle ==
    /\ pc = "config"
    /\ root = NoNode
    /\ target_sizes = EmptySizes
    /\ calls = <<>>
    /\ error = ""
    /\ frame = NoFrame

LayoutInit ==
    /\ layout_config \in LayoutConfigs
    /\ camera_sizes \in CameraSizes
    /\ LayoutIdle

\* LayoutManager.__init__ for the layout: compute_layout_from_config, which
\* returns the root and the target sizes, or raises.
ComputeLayout ==
    /\ pc = "config"
    /\ LET out == compute_layout_from_config(layout_config, camera_sizes)
       IN  /\ pc' = IF out.ok THEN "built" ELSE "raised"
           /\ root' = IF out.ok THEN out.node ELSE NoNode
           /\ target_sizes' = IF out.ok THEN out.target_sizes ELSE EmptySizes
           /\ calls' = out.calls
           /\ error' = out.error
    /\ UNCHANGED <<layout_config, camera_sizes, frame>>
    /\ UNCHANGED overlay_vars
    /\ UNCHANGED engine_vars
    /\ UNCHANGED composer_vars

\* LayoutManager.concatenate with an accessor that returns every camera's
\* buffer at its recorded target size ("target") or at its own resolution ("raw").
Concatenate(accessor) ==
    /\ pc = "built"
    /\ LET get_camera_image == IF accessor = "target"
                               THEN BufferAccessor(target_sizes)
                               ELSE BufferAccessor(camera_sizes)
       IN  frame' = [accessor |-> accessor,
                     image |-> concatenate(root, get_camera_image)]
    /\ pc' = "composed"
    /\ UNCHANGED <<layout_config, camera_sizes, root, target_sizes, calls, error>>
    /\ UNCHANGED overlay_vars
    /\ UNCHANGED engine_vars
    /\ UNCHANGED composer_vars

NoCall ==
    [kind |-> "none", overlay_config |-> LaserOverlay, sensor_data |-> SensorData,
     cache_key |-> NoKey, text |-> NoText, color |-> NoColor, visible |-> FALSE,
     computed |-> FALSE, y_offset |-> 0, img |-> <<>>,
     camera |-> NoCamera, config |-> ViewerConfig(<<>>, default_overlay_style),
     tree_index |-> 0, draw_centermark_flag |-> FALSE, lines |-> <<>>]

\* A new process: a composer with SensorData() and an empty _overlay_cache
OverlayInit ==
    /\ sensor_data = SensorData
    /\ overlay_cache = {}
    /\ last = NoCall
    /\ ticks = 0

\* composer.update_dynamic_data(name=value)
UpdateDynamicData(name, value) ==
    /\ ticks < MaxTicks
    /\ sensor_data' = update_dynamic_data(sensor_data, name, value)
    /\ ticks' = ticks + 1
    /\ UNCHANGED <<overlay_cache, last>>
    /\ UNCHANGED layout_vars
    /\ UNCHANGED engine_vars
    /\ UNCHANGED composer_vars

\* The state after a draw_text_overlay call that returned out
DrawReturned(overlay_config, key, out) ==
    /\ overlay_cache' = out.cache
    /\ last' = [kind |-> "draw", overlay_config |-> overlay_config,
                sensor_data |-> sensor_data, cache_key |-> key,
                text |-> out.text, color |-> out.color, visible |-> out.visible,
                computed |-> out.computed, y_offset |-> out.y_offset, img |-> out.img,
                camera |-> NoCamera, config |-> ViewerConfig(<<>>, default_overlay_style),
                tree_index |-> 0, draw_centermark_flag |-> FALSE, lines |-> <<>>]

Returns(overlay_config, key) ==
    DrawReturned(overlay_config, key,
              draw_text_overlay(<<>>, overlay_config, to_dict(sensor_data), 0,
                                default_overlay_style, key, overlay_cache))

\* draw_text_overlay(img, overlay_config, sensor_data.to_dict(), 0,
\* default_overlay_style, key) on an empty image, with key
\* sensor_data.cache_key() (use_cache) or None.
DrawTextOverlay(overlay_config, use_cache) ==
    /\ ticks < MaxTicks
    /\ Returns(overlay_config, IF use_cache THEN cache_key(sensor_data) ELSE NoKey)
    /\ ticks' = ticks + 1
    /\ UNCHANGED sensor_data
    /\ UNCHANGED layout_vars
    /\ UNCHANGED engine_vars
    /\ UNCHANGED composer_vars

\* The state after a draw_camera_overlays call that returned out
CameraDrawn(camera_name, config, tree_index, draw_centermark_flag, lines, out) ==
    /\ overlay_cache' = out.cache
    /\ last' = [kind |-> "camera", overlay_config |-> LaserOverlay,
                sensor_data |-> sensor_data, cache_key |-> cache_key(sensor_data),
                text |-> out.text, color |-> out.color, visible |-> out.visible,
                computed |-> out.computed, y_offset |-> out.y_offset, img |-> out.img,
                camera |-> camera_name, config |-> config, tree_index |-> tree_index,
                draw_centermark_flag |-> draw_centermark_flag, lines |-> lines]

\* draw_camera_overlays(img, camera_name, sensor_data, config, tree_index,
\* draw_centermark_flag) on an empty image of the camera's resolution
DrawCameraOverlays(camera_name, config, tree_index, draw_centermark_flag) ==
    /\ ticks < MaxTicks
    /\ CameraDrawn(camera_name, config, tree_index, draw_centermark_flag,
                   CentermarkStep(<<>>, ExampleSizes[camera_name], config,
                                  draw_centermark_flag),
                   draw_camera_overlays(<<>>, camera_name, sensor_data, config, tree_index,
                                        overlay_cache))
    /\ ticks' = ticks + 1
    /\ UNCHANGED sensor_data
    /\ UNCHANGED layout_vars
    /\ UNCHANGED engine_vars
    /\ UNCHANGED composer_vars

\* No composer: the layout model and the overlay model run without one
NoComposer ==
    [layout_manager |-> [ok |-> TRUE, num_layouts |-> 0, roots |-> <<>>, target_sizes |-> <<>>],
     cameras |-> <<>>]
NoFrames == [generated |-> FALSE, raised |-> FALSE, buffers |-> <<>>]

ComposerIdle == composer = NoComposer /\ frames = NoFrames

\* composer.update_camera_image(name, image, active)
UpdateCameraImage(name, active) ==
    /\ ticks < MaxTicks
    /\ composer' = update_camera_image(composer, name, active)
    /\ ticks' = ticks + 1
    /\ UNCHANGED <<frames, sensor_data, overlay_cache, last>>
    /\ UNCHANGED layout_vars
    /\ UNCHANGED engine_vars

\* composer.generate_frame()
GenerateFrame ==
    /\ ticks < MaxTicks
    /\ frames' = generate_frame(composer)
    /\ overlay_cache' = OverlayCache(DOMAIN composer.cameras, sensor_data,
                                     ViewerConfig(text_overlays, default_overlay_style),
                                     overlay_cache)
    /\ ticks' = ticks + 1
    /\ UNCHANGED <<composer, sensor_data, last>>
    /\ UNCHANGED layout_vars
    /\ UNCHANGED engine_vars

EngineIdle == engine_call = NoEngineCall

\* The call returns result
EngineReturns(result) ==
    /\ engine_call' = [engine_call EXCEPT !.done = TRUE, !.result = result]
    /\ UNCHANGED layout_vars
    /\ UNCHANGED overlay_vars
    /\ UNCHANGED composer_vars

\* evaluate_condition(expr, context)
EvaluateCondition ==
    /\ engine_call.func = "evaluate_condition"
    /\ ~engine_call.done
    /\ EngineReturns(evaluate_condition(engine_call.args[1], engine_call.args[2]))

\* evaluate_formula(expr, context)
EvaluateFormula ==
    /\ engine_call.func = "evaluate_formula"
    /\ ~engine_call.done
    /\ EngineReturns(evaluate_formula(engine_call.args[1], engine_call.args[2]))

\* build_context(sensor_data, variables)
BuildContext ==
    /\ engine_call.func = "build_context"
    /\ ~engine_call.done
    /\ EngineReturns(build_context(engine_call.args[1], engine_call.args[2]))

\* resolve_variable(var_config, context)
ResolveVariable ==
    /\ engine_call.func = "resolve_variable"
    /\ ~engine_call.done
    /\ EngineReturns(resolve_variable(engine_call.args[1], engine_call.args[2]))

\* evaluate_color_rules(rules, context, default_color)
EvaluateColorRules ==
    /\ engine_call.func = "evaluate_color_rules"
    /\ ~engine_call.done
    /\ EngineReturns(evaluate_color_rules(engine_call.args[1], engine_call.args[2],
                                          engine_call.args[3]))

\* render_template(template, context)
RenderTemplate ==
    /\ engine_call.func = "render_template"
    /\ ~engine_call.done
    /\ EngineReturns(Rendered(render_template(engine_call.args[1], engine_call.args[2])))

Init == LayoutInit /\ OverlayInit /\ EngineIdle /\ ComposerIdle

Next ==
    \/ ComputeLayout
    \/ \E accessor \in {"target", "raw"} : Concatenate(accessor)

Spec == Init /\ [][Next]_vars

\* The overlay renderer of a composer whose layout is the single camera A.
InitOverlay ==
    /\ layout_config = CameraConfigNode("A")
    /\ camera_sizes = ExampleSizes
    /\ LayoutIdle
    /\ OverlayInit
    /\ EngineIdle
    /\ ComposerIdle

NextOverlay ==
    \/ \E update \in SensorUpdates : UpdateDynamicData(update[1], update[2])
    \/ \E overlay_config \in OverlayConfigs, use_cache \in BOOLEAN :
            DrawTextOverlay(overlay_config, use_cache)

SpecOverlay == InitOverlay /\ [][NextOverlay]_vars

\* The same composer drawing the overlays of its cameras, on each layout
NextCamera ==
    \/ \E update \in SensorUpdates : UpdateDynamicData(update[1], update[2])
    \/ \E camera_name \in {"A", "B"}, config \in ViewerConfigs, tree_index \in {0, 1} :
            DrawCameraOverlays(camera_name, config, tree_index, FALSE)

SpecCamera == InitOverlay /\ [][NextCamera]_vars

\* The same with the centermark requested or not, enabled or not
NextCentermark ==
    \/ \E update \in SensorUpdates : UpdateDynamicData(update[1], update[2])
    \/ \E camera_name \in {"A", "B"}, config \in CentermarkViewerConfigs,
          tree_index \in {0, 1}, draw_centermark_flag \in BOOLEAN :
            DrawCameraOverlays(camera_name, config, tree_index, draw_centermark_flag)

SpecCentermark == InitOverlay /\ [][NextCentermark]_vars

\* A composer after construction: its layouts are built, no camera has an
\* image, the sensor data are the defaults.
InitComposer ==
    /\ layout_config = CameraConfigNode("A")
    /\ camera_sizes = ExampleSizes
    /\ LayoutIdle
    /\ OverlayInit
    /\ EngineIdle
    /\ composer \in {c \in Composers : c.layout_manager.ok}
    /\ frames = NoFrames

NextComposer ==
    \/ \E name \in AllCameraNames, active \in BOOLEAN : UpdateCameraImage(name, active)
    \/ \E update \in SensorUpdates : UpdateDynamicData(update[1], update[2])
    \/ GenerateFrame

SpecComposer == InitComposer /\ [][NextComposer]_vars

\* The functions of the template engine, each called once on arguments
\* drawn from the calls above.
InitEngine ==
    /\ layout_config = CameraConfigNode("A")
    /\ camera_sizes = ExampleSizes
    /\ LayoutIdle
    /\ OverlayInit
    /\ ComposerIdle
    /\ \/ engine_call \in ConditionCalls
       \/ engine_call \in FormulaCalls
       \/ engine_call \in BuildContextCalls
       \/ engine_call \in ResolveVariableCalls
       \/ engine_call \in EvaluateColorRulesCalls
       \/ engine_call \in RenderTemplateCalls

NextEngine ==
    \/ EvaluateCondition
    \/ EvaluateFormula
    \/ BuildContext
    \/ ResolveVariable
    \/ EvaluateColorRules
    \/ RenderTemplate

SpecEngine == InitEngine /\ [][NextEngine]_vars

\* config = load_config(path)
LoadConfig ==
    /\ engine_call.func = "load_config"
    /\ ~engine_call.done
    /\ EngineReturns(load_config(engine_call.args[1]))

\* MultiViewComposer(config)
NewComposer ==
    /\ engine_call.func = "MultiViewComposer"
    /\ ~engine_call.done
    /\ EngineReturns(ConstructComposer(ExampleSizes, engine_call.args[1]))

\* load_config called once on a document, or a composer constructed once
\* from a list of layouts.
InitConfig ==
    /\ layout_config = CameraConfigNode("A")
    /\ camera_sizes = ExampleSizes
    /\ LayoutIdle
    /\ OverlayInit
    /\ ComposerIdle
    /\ \/ \E shape \in LayoutShapes, node \in DOMAIN LayoutDocs,
             active \in DOMAIN ActiveLayoutDocs, overlays \in DOMAIN TextOverlayDocs :
                engine_call = EngineCall("load_config",
                                         <<Document(shape, node, active, overlays)>>)
       \/ \E layout_configs \in ConstructorLayouts :
                engine_call = EngineCall("MultiViewComposer", <<layout_configs>>)

NextConfig ==
    \/ LoadConfig
    \/ NewComposer

SpecConfig == InitConfig /\ [][NextConfig]_vars

(***************************************************************************)
(* Properties of the layout builder and compositor.                        *)
(***************************************************************************)
Completed == pc \in {"built", "composed"}

RECURSIVE Junctions(_)
Junctions(node) ==
    IF IsLeaf(node) THEN {}
    ELSE {node} \cup Junctions(node.left) \cup Junctions(node.right)

RECURSIVE LeafSeq(_)
LeafSeq(node) ==
    IF IsLeaf(node) THEN <<node>> ELSE LeafSeq(node.left) \o LeafSeq(node.right)

RECURSIVE ConfigCameras(_)
ConfigCameras(cfg) ==
    IF cfg.camera # NoCamera THEN <<cfg.camera>>
    ELSE IF cfg.children = <<>> THEN <<>>
    ELSE ConfigCameras(cfg.children[1])
         \o ConfigCameras([cfg EXCEPT !.children = Tail(cfg.children)])

\* The dimension a junction of direction d equalizes, and the one it adds up.
Perp(node, d) == IF d = VERTICAL THEN node.width ELSE node.height
Axis(node, d) == IF d = VERTICAL THEN node.height ELSE node.width

CallsMade == {calls[i] : i \in DOMAIN calls}

\* C1: in a built tree the two children of every junction share the
\* perpendicular dimension, which is the junction's: equal widths at a
\* VERTICAL junction, equal heights at a HORIZONTAL one, also at junctions
\* that were resized through an ancestor.
C1_PerpendicularShared ==
    Completed =>
        \A j \in Junctions(root) :
            /\ Perp(j.left, j.direction) = Perp(j.right, j.direction)
            /\ Perp(j.right, j.direction) = Perp(j, j.direction)

\* A built tree in which a junction below a resized junction was resized.
C1_Witness ==
    /\ pc = "built"
    /\ \E c \in CallsMade :
        /\ ~IsLeaf(c.node1)
        /\ ~IsLeaf(c.node1.left)
        /\ c.junction.left.left # c.node1.left

\* What C2 says of one make_junction_node call.
C2_Call(c) ==
    LET d == c.direction
        p1 == Perp(c.node1, d)
        p2 == Perp(c.node2, d)
        out1 == c.junction.left
        out2 == c.junction.right
    IN  /\ p1 > p2 => /\ Perp(out1, d) = p2
                      /\ Axis(out1, d) = round(Axis(c.node1, d) * p2, p1)
                      /\ out2 = c.node2
        /\ p1 < p2 => /\ Perp(out2, d) = p1
                      /\ Axis(out2, d) = round(Axis(c.node2, d) * p1, p2)
                      /\ out1 = c.node1
        /\ p1 = p2 => /\ out1 = c.node1
                      /\ out2 = c.node2
                      /\ c.target_sizes_out = c.target_sizes
                      /\ Axis(c.junction, d) = Axis(c.node1, d) + Axis(c.node2, d)

\* C2: make_junction_node resizes only the node with the strictly larger
\* perpendicular dimension, to the other node's perpendicular dimension and
\* to round(axis * smaller / larger) along the axis; the other node is kept;
\* with equal perpendicular dimensions nothing is resized, target_sizes is
\* untouched and the axis size is the sum.
C2_ScalesLargerOnly == \A c \in CallsMade : C2_Call(c)

\* A build with a call that resized a node and a call that resized none.
C2_Witness ==
    /\ pc = "built"
    /\ \E c \in CallsMade : Perp(c.node1, c.direction) < Perp(c.node2, c.direction)
    /\ \E c \in CallsMade : Perp(c.node1, c.direction) > Perp(c.node2, c.direction)
    /\ \E c \in CallsMade : Perp(c.node1, c.direction) = Perp(c.node2, c.direction)

\* The (before, after) pairs of the nodes a call resized.
Resized(c) ==
    LET d == c.direction
    IN  IF Perp(c.node1, d) > Perp(c.node2, d) THEN {<<c.node1, c.junction.left>>}
        ELSE IF Perp(c.node1, d) < Perp(c.node2, d) THEN {<<c.node2, c.junction.right>>}
        ELSE {}

\* What C3 says of resize on node before, which became after: at every
\* junction in it the left child got round(leftOld * new / old) along the
\* junction's axis and the right child the rest.
RECURSIVE C3_Split(_, _)
C3_Split(before, after) ==
    IF IsLeaf(before) THEN TRUE
    ELSE LET d == before.direction
         IN  /\ Axis(after.left, d) =
                    round(Axis(before.left, d) * Axis(after, d), Axis(before, d))
             /\ Axis(after.right, d) = Axis(after, d) - Axis(after.left, d)
             /\ C3_Split(before.left, after.left)
             /\ C3_Split(before.right, after.right)

\* C3: resize gives the left child round(leftOld * new / old) and the right
\* child the remainder, and in a built tree every junction's size along its
\* axis is exactly the sum of its children's.
C3_NoDrift ==
    /\ \A c \in CallsMade : \A ba \in Resized(c) : C3_Split(ba[1], ba[2])
    /\ Completed =>
        \A j \in Junctions(root) :
            Axis(j, j.direction) = Axis(j.left, j.direction) + Axis(j.right, j.direction)

\* A junction at which rounding both children would not add up.
RECURSIVE HasDriftCase(_, _)
HasDriftCase(before, after) ==
    /\ ~IsLeaf(before)
    /\ LET d == before.direction
       IN  \/ round(Axis(before.left, d) * Axis(after, d), Axis(before, d))
              + round(Axis(before.right, d) * Axis(after, d), Axis(before, d))
              # Axis(after, d)
           \/ HasDriftCase(before.left, after.left)
           \/ HasDriftCase(before.right, after.right)

\* A built tree after a resize of nested junctions in which the two rounded
\* shares of a junction do not add up to its new size.
C3_Witness ==
    /\ pc = "built"
    /\ \E c \in CallsMade : \E ba \in Resized(c) :
        /\ ~IsLeaf(ba[1])
        /\ ~IsLeaf(ba[1].left) \/ ~IsLeaf(ba[1].right)
        /\ HasDriftCase(ba[1], ba[2])

\* Every rounding of the build, as <<numerator, denominator, result>>: the
\* scaled dimension of make_junction_node and the left shares of resize.
RECURSIVE SplitRoundings(_, _)
SplitRoundings(before, after) ==
    IF IsLeaf(before) THEN {}
    ELSE LET d == before.direction
         IN  {<<Axis(before.left, d) * Axis(after, d), Axis(before, d),
                Axis(after.left, d)>>}
             \cup SplitRoundings(before.left, after.left)
             \cup SplitRoundings(before.right, after.right)

CallRoundings(c) ==
    UNION {{<<Axis(ba[1], c.direction) * Perp(ba[2], c.direction),
              Perp(ba[1], c.direction), Axis(ba[2], c.direction)>>}
           \cup SplitRoundings(ba[1], ba[2]) : ba \in Resized(c)}

Roundings == UNION {CallRoundings(c) : c \in CallsMade}

\* result is an integer nearest to num / den
Nearest(num, den, result) ==
    /\ 2 * result * den - 2 * num <= den
    /\ 2 * num - 2 * result * den <= den

\* num / den lies exactly halfway between two integers
Tie(num, den) == 2 * (num % den) = den

\* C4 as stated: every rounding of the sizer rounds to the nearest integer,
\* and a value exactly halfway between two integers to the larger one.
C4_TiesAwayFromZero ==
    \A e \in Roundings :
        /\ Nearest(e[1], e[2], e[3])
        /\ Tie(e[1], e[2]) => e[3] = (e[1] \div e[2]) + 1

\* C4 amended: every rounding of the sizer rounds to the nearest integer,
\* and a value exactly halfway between two integers to the even one.
C4_TiesToEven ==
    \A e \in Roundings :
        /\ Nearest(e[1], e[2], e[3])
        /\ Tie(e[1], e[2]) => e[3] % 2 = 0

\* A build that rounded a tie down to the even integer (0.5 to 0, or 2.5 to 2).
C4_Witness ==
    /\ pc = "built"
    /\ \E e \in Roundings : Tie(e[1], e[2]) /\ e[3] = e[1] \div e[2]

\* C5: when the layout is computed, target_sizes has an entry for every
\* camera a leaf of the layout names, and for every leaf of the tree the
\* entry of its camera is the leaf's final (height, width).
C5_TargetSizesMatchLeaves ==
    Completed =>
        /\ \A i \in DOMAIN ConfigCameras(layout_config) :
               ConfigCameras(layout_config)[i] \in DOMAIN target_sizes
        /\ \A i \in DOMAIN LeafSeq(root) :
               LET leaf == LeafSeq(root)[i]
               IN  /\ leaf.camera \in DOMAIN target_sizes
                   /\ target_sizes[leaf.camera] = <<leaf.height, leaf.width>>

\* C6: with an accessor that returns every camera's buffer at the size
\* target_sizes records for it, composition joins images that agree in the
\* perpendicular dimension at every junction (no cv2 error) and the frame
\* has the root's height and width.
C6_FrameHasRootSize ==
    (pc = "composed" /\ frame.accessor = "target") =>
        /\ frame.image.ok
        /\ frame.image.height = root.height
        /\ frame.image.width = root.width

\* Every junction of the configuration has a direction of the configuration
\* language.
RECURSIVE WellDirected(_)
WellDirected(cfg) ==
    \/ cfg.camera # NoCamera
    \/ /\ cfg.direction \in ConfigDirections
       /\ \A i \in DOMAIN cfg.children : WellDirected(cfg.children[i])

\* The shape of a tree: its cameras, directions and nesting, without sizes.
RECURSIVE Shape(_)
Shape(node) ==
    IF IsLeaf(node) THEN <<"leaf", node.camera>>
    ELSE <<node.direction, Shape(node.left), Shape(node.right)>>

\* junction(...junction(junction(T0, T1), T2)..., Tn) of the first n shapes
RECURSIVE LeftDeep(_, _, _)
LeftDeep(shapes, n, d) ==
    IF n = 1 THEN shapes[1] ELSE <<d, LeftDeep(shapes, n - 1, d), shapes[n]>>

RECURSIVE ExpectedShape(_)
ExpectedShape(cfg) ==
    IF cfg.camera # NoCamera THEN <<"leaf", cfg.camera>>
    ELSE LeftDeep([i \in DOMAIN cfg.children |-> ExpectedShape(cfg.children[i])],
                  Len(cfg.children),
                  IF cfg.direction = "horizontal" THEN HORIZONTAL ELSE VERTICAL)

\* C7: a junction configuration with children c0..cn is built as the
\* left-deep binary tree junction(...junction(T0, T1)..., Tn) in the
\* configuration's direction, its root's right subtree being the last child.
C7_LeftDeepFold ==
    (Completed /\ WellDirected(layout_config)) =>
        Shape(root) = ExpectedShape(layout_config)

\* A built layout whose root configuration has more than two children, one
\* of them a junction.
C7_Witness ==
    /\ pc = "built"
    /\ WellDirected(layout_config)
    /\ layout_config.camera = NoCamera
    /\ Len(layout_config.children) >= 3
    /\ \E i \in DOMAIN layout_config.children :
           layout_config.children[i].camera = NoCamera

(***************************************************************************)
(* Properties of the overlay cache.                                        *)
(***************************************************************************)
Drawn == last.kind = "draw"
DrawnWithCache == Drawn /\ last.cache_key # NoKey

\* The triple (text, color, visible) the last call worked with
LastTriple == <<last.text, last.color, last.visible>>

\* Two triples agree on visible and, when visible, on text and color.
SameTriple(a, b) == a[3] = b[3] /\ (a[3] => a[1] = b[1] /\ a[2] = b[2])

\* C8: for any sequence of _compute_overlay / draw_text_overlay calls, with
\* overlay definitions of several configurations and any sensor snapshots,
\* the triple returned through the cache equals the triple the computation
\* without a cache yields for the same overlay definition and the same
\* sensor data.
C8_CachedEqualsUncached ==
    DrawnWithCache =>
        SameTriple(LastTriple,
                   compute_directly(last.overlay_config, to_dict(last.sensor_data), {}).result)

\* C9: a call whose key (overlay id, cache key) is in the cache returns the
\* stored triple without building a context and leaves the cache as it is;
\* a call whose key is not in the cache stores the triple it returns, of a
\* hidden overlay as of a visible one; stored entries stay, so two calls
\* with the same key return the same triple.
C9_HitReturnsStored ==
    [][/\ \A overlay_config \in OverlayConfigs :
            DrawTextOverlay(overlay_config, TRUE) =>
                /\ \A entry \in CacheHits(overlay_cache,
                                          <<overlay_config.id, cache_key(sensor_data)>>) :
                        /\ <<last'.text, last'.color, last'.visible>> = entry.value
                        /\ ~last'.computed
                        /\ overlay_cache' = overlay_cache
                /\ \E entry \in CacheHits(overlay_cache',
                                          <<overlay_config.id, cache_key(sensor_data)>>) :
                        <<last'.text, last'.color, last'.visible>> = entry.value
       /\ overlay_cache \subseteq overlay_cache'
      ]_vars

\* A hidden overlay was served from the cache, without recomputation.
C9_Witness == DrawnWithCache /\ ~last.computed /\ ~last.visible

\* Two snapshots differ in the value of a field of the dataclass, or of a
\* custom field both hold.
SnapshotsDiffer(a, b) ==
    \/ \E i \in DOMAIN FieldNames :
            ~PyEq(getattr(a, FieldNames[i]), getattr(b, FieldNames[i]))
    \/ \E name \in DOMAIN a.custom \cap DOMAIN b.custom :
            ~PyEq(a.custom[name], b.custom[name])

\* C10: two sensor snapshots that differ in the value of a sensor field, a
\* field of the dataclass or a custom field stored by set /
\* update_dynamic_data, have different cache_key() values.
C10_FingerprintDistinguishes ==
    [][SnapshotsDiffer(sensor_data, sensor_data')
        => ~TupleEq(cache_key(sensor_data), cache_key(sensor_data'))]_vars

(***************************************************************************)
(* Properties of the template engine.                                      *)
(***************************************************************************)
Called(func) == engine_call.done /\ engine_call.func = func

\* sub occurs in s at position i, somewhere in s, and first at position
OccursAt(sub, s, i) == i + Len(sub) - 1 <= Len(s) /\ SubSeq(s, i, i + Len(sub) - 1) = sub
Occurs(sub, s) == \E i \in DOMAIN s : OccursAt(sub, s, i)
FirstAt(sub, s) ==
    CHOOSE p \in DOMAIN s : OccursAt(sub, s, p) /\ \A q \in 1..(p - 1) : ~OccursAt(sub, s, q)

\* The operators in the order the comparison is looked for
OrderedOperators == <<<<"=", "=">>, <<"!", "=">>, <<"<", "=">>, <<">", "=">>, <<"<">>, <<">">>>>
OrderOperators == {<<"<", "=">>, <<">", "=">>, <<"<">>, <<">">>}

\* operator(left, right) for two values the operator is defined on
Operator(op, left, right) ==
    CASE op = <<"=", "=">> -> PyEq(left, right)
      [] op = <<"!", "=">> -> ~PyEq(left, right)
      [] op = <<"<", "=">> -> PyLt(left, right) \/ PyEq(left, right)
      [] op = <<">", "=">> -> PyLt(right, left) \/ PyEq(left, right)
      [] op = <<"<">> -> PyLt(left, right)
      [] op = <<">">> -> PyLt(right, left)

\* Values the order operators compare: two numbers or two strings
Comparable(left, right) ==
    \/ IsNumber(left) /\ IsNumber(right)
    \/ IsStr(left) /\ IsStr(right)

\* The expression of the evaluate_condition call is neither None nor empty
HasExpression == engine_call.args[1] \notin {NoneV, StrV(<<>>)}

\* The text of the evaluate_condition call after substitution of the variables
Substituted == _substitute_variables(engine_call.args[1][2], engine_call.args[2])

HasOperator == \E i \in DOMAIN OrderedOperators : Occurs(OrderedOperators[i], Substituted)

\* The first operator of the ordered list that occurs in the text, and the
\* parsed sides of the text split at its first occurrence
Selected ==
    OrderedOperators[CHOOSE i \in DOMAIN OrderedOperators :
        /\ Occurs(OrderedOperators[i], Substituted)
        /\ \A j \in 1..(i - 1) : ~Occurs(OrderedOperators[j], Substituted)]

LeftSide == _parse_value(Upto(Substituted, FirstAt(Selected, Substituted)), engine_call.args[2])
RightSide ==
    _parse_value(From(Substituted, FirstAt(Selected, Substituted) + Len(Selected)),
                 engine_call.args[2])

\* C11: evaluate_condition returns true for an empty or absent expression;
\* otherwise it takes the first operator of ==, !=, <=, >=, <, > that occurs
\* in the substituted text, splits the text at the first occurrence of that
\* operator, parses both sides with _parse_value and returns
\* operator(left, right).  "{x} > 44" is true for x = 50, false for x = 10.
C11_FirstOperatorSplits ==
    Called("evaluate_condition") =>
        /\ ~HasExpression => engine_call.result = TRUE
        /\ (/\ HasExpression
            /\ HasOperator
            /\ Selected \in OrderOperators => Comparable(LeftSide, RightSide))
                => engine_call.result = Operator(Selected, LeftSide, RightSide)
        /\ engine_call.args[1] = StrV(<<"{", "x", "}", " ", ">", " ", "4", "4">>) /\ engine_call.args[2] = Context(<<"x">>, IntV(50))
                => engine_call.result = TRUE
        /\ engine_call.args[1] = StrV(<<"{", "x", "}", " ", ">", " ", "4", "4">>) /\ engine_call.args[2] = Context(<<"x">>, IntV(10))
                => engine_call.result = FALSE

\* "{x} <= 44" with x = 44: true as <=, false had it been read as <
C11_Witness ==
    /\ Called("evaluate_condition")
    /\ engine_call.args[1] = StrV(<<"{", "x", "}", " ", "<", "=", " ", "4", "4">>)
    /\ engine_call.args[2] = Context(<<"x">>, IntV(44))
    /\ engine_call.result = TRUE

\* C12: evaluate_condition returns a boolean for every expression and every
\* context of scalars.  An order comparison of operands of incompatible
\* types is false; an expression without operator whose substituted text is
\* neither true/false nor a key of the context is false.
C12_FailsClosed ==
    Called("evaluate_condition") =>
        /\ engine_call.result \in BOOLEAN
        /\ (/\ HasExpression
            /\ HasOperator
            /\ Selected \in OrderOperators
            /\ ~Comparable(LeftSide, RightSide))
                => engine_call.result = FALSE
        /\ (/\ HasExpression
            /\ ~HasOperator
            /\ lower(strip(Substituted)) \notin {<<"t", "r", "u", "e">>, <<"f", "a", "l", "s", "e">>}
            /\ strip(Substituted) \notin DOMAIN engine_call.args[2])
                => engine_call.result = FALSE

\* A string was ordered against a number
C12_Witness ==
    /\ Called("evaluate_condition")
    /\ engine_call.args[1] = StrV(<<"{", "x", "}", " ", ">", " ", "4", "4">>)
    /\ engine_call.args[2] = Context(<<"x">>, StrV(<<"a", "b", "c">>))
    /\ engine_call.result = FALSE

\* The text of the evaluate_formula call after substitution of the variables
SubstitutedFormula == _substitute_variables(engine_call.args[1], engine_call.args[2])

OnlyAllowed(s) == \A i \in DOMAIN s : s[i] \in allowed

\* C13: evaluate_formula never raises.  When the substituted text holds
\* only digits, ".", "+", "-", "*", "/", parentheses and spaces, any failure
\* of its evaluation returns the text unevaluated; when it holds another
\* character the result is its numeric parse or the text itself.
C13_FormulaNeverRaises ==
    Called("evaluate_formula") =>
        /\ ~IsRaise(engine_call.result)
        /\ OnlyAllowed(SubstitutedFormula) /\ IsRaise(eval(SubstitutedFormula))
                => engine_call.result = StrV(SubstitutedFormula)
        /\ ~OnlyAllowed(SubstitutedFormula)
                => \/ engine_call.result = StrV(SubstitutedFormula)
                   \/ IsFloat(engine_call.result)

\* The names declared before the i-th variable, and all the names declared
NamesBefore(variables, i) == {variables[j][1] : j \in 1..(i - 1)}
Names(variables) == NamesBefore(variables, Len(variables) + 1)

\* What the i-th variable is to see: the sensor values and the variables
\* declared before it, a variable with the name of a sensor field in the
\* place of the field
ContextBefore(sensor, variables, i, result) ==
    [k \in DOMAIN sensor \cup NamesBefore(variables, i) |->
        IF k \in NamesBefore(variables, i) THEN result[k] ELSE sensor[k]]

Reverse(seq) == [i \in DOMAIN seq |-> seq[Len(seq) + 1 - i]]

\* C14: build_context resolves the variables in declaration order and
\* inserts each result before it resolves the next: every variable is
\* resolved in the context of the sensor values and of exactly the variables
\* declared before it, a variable with the name of a sensor field replacing
\* the field; the sensor values that no variable replaces are kept.
C14_DeclarationOrder ==
    Called("build_context") =>
        /\ DOMAIN engine_call.result = DOMAIN engine_call.args[1] \cup Names(engine_call.args[2])
        /\ \A k \in DOMAIN engine_call.args[1] \ Names(engine_call.args[2]) :
                engine_call.result[k] = engine_call.args[1][k]
        /\ \A i \in DOMAIN engine_call.args[2] :
                engine_call.result[engine_call.args[2][i][1]] =
                    resolve_variable(engine_call.args[2][i][2],
                                     ContextBefore(engine_call.args[1], engine_call.args[2], i,
                                                   engine_call.result))

\* half is declared before the variable a it refers to: its placeholder
\* stays unresolved, and the reversed declarations give another context
C14_Witness ==
    /\ Called("build_context")
    /\ engine_call.args[2] = <<Formula(<<"h", "a", "l", "f">>, <<"{", "a", "}", " ", "/", " ", "2">>), Direct(<<"a">>, <<"{", "l", "a", "s", "e", "r", "_", "d", "i", "s", "t", "a", "n", "c", "e", "}">>)>>
    /\ engine_call.result[<<"h", "a", "l", "f">>] = StrV(<<"{", "a", "}", " ", "/", " ", "2">>)
    /\ build_context(engine_call.args[1], Reverse(engine_call.args[2])) # engine_call.result
    /\ build_context(engine_call.args[1], Reverse(engine_call.args[2]))[<<"h", "a", "l", "f">>]
            \in {FloatV(175, 1), FloatV(250, 1), FloatV(225, 1)}

\* The branches of the resolve_variable call that apply: the branches
\* without condition and those whose condition evaluates true
Applying ==
    {i \in DOMAIN engine_call.args[1].conditions :
        \/ engine_call.args[1].conditions[i].when = NoneV
        \/ evaluate_condition(engine_call.args[1].conditions[i].when, engine_call.args[2])}

FirstApplying == CHOOSE i \in Applying : \A j \in Applying : i <= j

\* What the branch gives: its value, else its rendered format, else None
BranchGives(cond, context, result) ==
    /\ cond.value # NoneV => result = cond.value
    /\ cond.value = NoneV /\ cond.format # NoneV
            => result = StrV(render_template(cond.format[2], context))
    /\ cond.value = NoneV /\ cond.format = NoneV => result = NoneV

\* C15: resolve_variable on a conditional variable stops at the first
\* branch without condition or whose condition is true and returns its
\* value when it has one, else its rendered format, else None; the branches
\* after it change nothing.  Without such a branch it returns None.
C15_FirstBranchWins ==
    Called("resolve_variable") /\ engine_call.args[1].type = "conditional" =>
        /\ Applying = {} => engine_call.result = NoneV /\ ~IsRaise(engine_call.result)
        /\ Applying # {} =>
            /\ BranchGives(engine_call.args[1].conditions[FirstApplying],
                           engine_call.args[2], engine_call.result)
            /\ engine_call.result =
                    resolve_variable(
                        VariableConfig("conditional", NoneV,
                            SubSeq(engine_call.args[1].conditions, 1, FirstApplying)),
                        engine_call.args[2])

\* The first branch applies and has a value and a format; the value is returned
C15_Witness ==
    /\ Called("resolve_variable")
    /\ engine_call.args[1].type = "conditional"
    /\ Applying # {}
    /\ FirstApplying < Len(engine_call.args[1].conditions)
    /\ engine_call.args[1].conditions[FirstApplying].value # NoneV
    /\ engine_call.args[1].conditions[FirstApplying].format # NoneV
    /\ engine_call.result = engine_call.args[1].conditions[FirstApplying].value


\* The rules of the evaluate_color_rules call that match: the rules without
\* condition and those whose condition evaluates true
Matching ==
    {i \in DOMAIN engine_call.args[1] :
        \/ engine_call.args[1][i].when = NoneV
        \/ evaluate_condition(engine_call.args[1][i].when, engine_call.args[2])}

\* C16: evaluate_color_rules returns the color of the first rule, in the
\* order of the list, that has no condition or whose condition is true, and
\* default_color when no rule matches, the empty list included.
C16_FirstRuleWins ==
    Called("evaluate_color_rules") =>
        /\ Matching = {} => engine_call.result = engine_call.args[3]
        /\ \A i \in Matching :
                (\A j \in Matching : i <= j) => engine_call.result = engine_call.args[1][i].color

\* Two rules match and the first one gives a color that the second and
\* default_color do not
C16_Witness ==
    /\ Called("evaluate_color_rules")
    /\ \E i, j \in Matching :
            /\ i < j
            /\ \A k \in Matching : i <= k
            /\ engine_call.args[1][i].color # engine_call.args[1][j].color
            /\ engine_call.args[1][i].color # engine_call.args[3]
            /\ engine_call.result = engine_call.args[1][i].color

\* No rule of a list with rules matches and default_color is returned
C16_WitnessDefault ==
    /\ Called("evaluate_color_rules")
    /\ engine_call.args[1] # <<>>
    /\ Matching = {}
    /\ engine_call.result = engine_call.args[3]


\* What a piece of the template becomes in one pass: a text stays, a
\* placeholder of an unknown name stays, a placeholder of a known name is
\* str(value) without spec or when formatting fails, else the formatted value
FormatFails(value, spec) == FormatOverflows(value, spec) \/ FormatRaises(value, spec)

SinglePassPiece(piece, context) ==
    IF piece.literal \/ piece.name \notin DOMAIN context THEN PieceText(piece)
    ELSE IF piece.spec = <<>> \/ FormatFails(context[piece.name], piece.spec)
    THEN str(context[piece.name])
    ELSE format(context[piece.name], piece.spec)

RECURSIVE SinglePass(_, _)
SinglePass(pieces, context) ==
    IF pieces = <<>> THEN <<>>
    ELSE SinglePassPiece(Head(pieces), context) \o SinglePass(Tail(pieces), context)

\* C17: render_template never raises and replaces each placeholder in one
\* pass: an unknown name is left as written, a known name becomes
\* str(value) without a format spec or when formatting fails and the
\* formatted value otherwise, and the texts put in are not scanned again.
C17_RenderNeverRaises ==
    Called("render_template") =>
        /\ ~IsRaise(engine_call.result)
        /\ \A pieces \in TemplatePieces :
                TemplateOf(pieces) = engine_call.args[1] =>
                    engine_call.result = StrV(SinglePass(pieces, engine_call.args[2]))

\* The part of C17 that holds: single pass replacement in the calls that return
C17_SinglePassWhenReturns ==
    Called("render_template") /\ ~IsRaise(engine_call.result) =>
        \A pieces \in TemplatePieces :
            TemplateOf(pieces) = engine_call.args[1] =>
                engine_call.result = StrV(SinglePass(pieces, engine_call.args[2]))

\* "{v:.2f}cm" with v = 3.14159 renders as "3.14cm"
C17_Example ==
    /\ Called("render_template")
    /\ engine_call.args[1] = <<"{", "v", ":", ".", "2", "f", "}", "c", "m">>
    /\ engine_call.result = StrV(<<"3", ".", "1", "4", "c", "m">>)

\* The text of t, put in for {t}, is not scanned again
C17_NotRescanned ==
    /\ Called("render_template")
    /\ engine_call.args[1] = <<"{", "t", "}", "{", "x", "}">>
    /\ engine_call.result = StrV(<<"{", "x", "}", "6", "5">>)


(***************************************************************************)
(* Properties of the overlays drawn on a camera.                           *)
(***************************************************************************)
CameraDrawnOn0 == last.kind = "camera" /\ last.tree_index = 0

Lists(overlay, camera_name) == \E i \in DOMAIN overlay.cameras : overlay.cameras[i] = camera_name

\* The overlay is visible by its visible_when on the sensor data of the call
VisibleNow(overlay) ==
    OverlayVisible(overlay, build_context(to_dict(last.sensor_data), overlay.variables))

\* The overlays of the call that list the camera and are visible, in the
\* configured order
RECURSIVE ToDraw(_, _)
ToDraw(overlays, camera_name) ==
    IF overlays = <<>> THEN <<>>
    ELSE IF Lists(Head(overlays), camera_name) /\ VisibleNow(Head(overlays))
    THEN <<Head(overlays)>> \o ToDraw(Tail(overlays), camera_name)
    ELSE ToDraw(Tail(overlays), camera_name)

\* The box height of the style used for the overlay
HeightUsed(overlay) ==
    IF overlay.style # NoStyle THEN overlay.style.box_height
    ELSE last.config.default_overlay_style.box_height

RECURSIVE HeightsBefore(_, _)
HeightsBefore(overlays, k) ==
    IF k = 1 THEN 0 ELSE HeightsBefore(overlays, k - 1) + HeightUsed(overlays[k - 1])

\* The boxes on the image are those of the overlays to draw, in order, the
\* k-th at the sum of the box heights before it
StackedAs(overlays) ==
    /\ Len(last.img) = Len(overlays)
    /\ \A k \in DOMAIN overlays :
            /\ last.img[k].box_height = HeightUsed(overlays[k])
            /\ last.img[k].y_offset = HeightsBefore(overlays, k)
    /\ last.y_offset = HeightsBefore(overlays, Len(overlays) + 1)

\* C18: draw_camera_overlays draws the visible overlays that list the
\* camera in configured order, each at the running offset, which starts at
\* 0 and advances by the box height of the style used; hidden overlays and
\* overlays of other cameras draw nothing and leave the offset.  The k-th
\* box starts at the sum of the box heights before it and the boxes drawn
\* on one camera do not overlap.
C18_BoxesStackWithoutOverlap ==
    CameraDrawnOn0 =>
        /\ StackedAs(ToDraw(last.config.text_overlays, last.camera))
        /\ \A k, l \in DOMAIN last.img :
                k # l => BoxRows(last.img[k]) \cap BoxRows(last.img[l]) = {}

\* The part of C18 that holds: the offsets of the boxes
C18_OffsetsStack ==
    CameraDrawnOn0 => StackedAs(ToDraw(last.config.text_overlays, last.camera))

\* Two boxes of two heights were drawn, the second at the height of the
\* first, and an overlay that lists the camera stayed hidden
C18_Stacked ==
    /\ CameraDrawnOn0
    /\ Len(last.img) = 2
    /\ last.img[1].box_height # last.img[2].box_height
    /\ last.img[2].y_offset = last.img[1].box_height
    /\ \E i \in DOMAIN last.config.text_overlays :
            /\ Lists(last.config.text_overlays[i], last.camera)
            /\ ~VisibleNow(last.config.text_overlays[i])


(***************************************************************************)
(* Properties of the color of an overlay.                                  *)
(***************************************************************************)
\* The color of the overlay by its definition, on the sensor data of the call
ColorNow(overlay) ==
    IF overlay.color # NoColor THEN overlay.color
    ELSE IF overlay.color_rules = <<>> THEN White
    ELSE evaluate_color_rules(overlay.color_rules,
                              build_context(to_dict(last.sensor_data), overlay.variables), White)

\* C19: the color of a visible overlay is its static color when it has one,
\* whatever its color rules say, else the result of evaluate_color_rules
\* with the default white when it has rules, else white; the path through
\* the cache and the path without it give the same color for the same
\* overlay and sensor data.
C19_ColorResolution ==
    Drawn /\ last.visible => last.color = ColorNow(last.overlay_config)

\* The part of C19 that holds: the color of the calls that computed it,
\* with a cache key or without
C19_ColorWhenComputed ==
    Drawn /\ last.visible /\ last.computed => last.color = ColorNow(last.overlay_config)

\* A static color was drawn although a color rule of the overlay matches
C19_StaticOverRules ==
    /\ Drawn /\ last.visible /\ last.computed
    /\ last.overlay_config.color # NoColor
    /\ last.overlay_config.color_rules # <<>>
    /\ last.color = last.overlay_config.color
    /\ last.color # evaluate_color_rules(last.overlay_config.color_rules,
                        build_context(to_dict(last.sensor_data), last.overlay_config.variables),
                        White)


(***************************************************************************)
(* Properties of generate_frame.                                           *)
(***************************************************************************)
\* C20: in every state that update_camera_image and update_dynamic_data
\* calls lead to, with no camera updated or active as well, generate_frame
\* does not raise and returns one buffer for each configured layout.
C20_OneBufferPerLayout ==
    frames.generated =>
        /\ ~frames.raised
        /\ Len(frames.buffers) = composer.layout_manager.num_layouts
        /\ \A i \in DOMAIN frames.buffers : frames.buffers[i].ok

\* The number of leaves of a layout configuration, from its i-th child on
RECURSIVE LeafCount(_, _)
LeafCount(config, i) ==
    IF config.camera # NoCamera THEN 1
    ELSE IF i > Len(config.children) THEN 0
    ELSE LeafCount(config.children[i], 1) + LeafCount(config, i + 1)

\* No layout names a camera in two leaves
CamerasDistinct(layout_configs) ==
    \A i \in DOMAIN layout_configs :
        LeafCount(layout_configs[i], 1) = Cardinality(LayoutCameras(layout_configs[i]))

\* The part of C20 that holds: the composers whose layouts name every
\* camera in one leaf
C20_WhenCamerasDistinct ==
    /\ frames.generated
    /\ \E layout_configs \in ComposerLayouts :
            /\ CamerasDistinct(layout_configs)
            /\ composer.layout_manager = LayoutManager(ExampleSizes, layout_configs)
    => /\ ~frames.raised
       /\ Len(frames.buffers) = composer.layout_manager.num_layouts
       /\ \A i \in DOMAIN frames.buffers : frames.buffers[i].ok

\* Two frames were generated for two layouts while no camera was active
C20_Placeholders ==
    /\ frames.generated /\ ~frames.raised
    /\ Len(frames.buffers) = 2
    /\ \A c \in DOMAIN composer.cameras : ~composer.cameras[c].active

(***************************************************************************)
(* Properties of load_config.                                              *)
(***************************************************************************)
\* A junction (a node without the key camera) that the claim rejects, in the
\* node or below it
RECURSIVE HasBadJunction(_)
HasBadJunction(data) ==
    /\ "camera" \notin DOMAIN data
    /\ \/ "direction" \notin DOMAIN data
       \/ "direction" \in DOMAIN data /\ data.direction \notin {"horizontal", "vertical"}
       \/ "children" \notin DOMAIN data
       \/ "children" \in DOMAIN data /\ Len(data.children) < 2
       \/ "children" \in DOMAIN data
            /\ \E i \in DOMAIN data.children : HasBadJunction(data.children[i])

LayoutsMissing(data) == "layouts" \notin DOMAIN data \/ DOMAIN data.layouts = {}

Rejected(data) ==
    \/ LayoutsMissing(data)
    \/ ~LayoutsMissing(data) /\ \E name \in DOMAIN data.layouts : HasBadJunction(data.layouts[name])
    \/ ~LayoutsMissing(data) /\ ActiveLayoutOf(data) \notin DOMAIN data.layouts
    \/ \E i \in DOMAIN TextOverlaysOf(data) :
            {"id", "template"} \ DOMAIN TextOverlaysOf(data)[i] # {}

\* C21: load_config raises ConfigError, and returns no configuration, on a
\* document without layouts or with an empty mapping of layouts, with a
\* junction at any depth that has no direction, a direction other than
\* horizontal and vertical, no children or fewer than 2 children, with an
\* active_layout that names no layout, or with a text overlay without id or
\* without template; a composer constructed from a configuration without
\* layouts raises as well.
C21_LoadConfigRejects ==
    /\ (Called("load_config") /\ Rejected(engine_call.args[1]))
            => IsRaise(engine_call.result) /\ engine_call.result[2] = "ConfigError"
    /\ (Called("MultiViewComposer") /\ engine_call.args[1] = <<>>)
            => IsRaise(engine_call.result)

\* A junction two levels down has one child, everything else is in order.
C21_Witness ==
    /\ Called("load_config")
    /\ engine_call.args[1] = Document("main", 9, 2, 3)
    /\ IsRaise(engine_call.result)

\* A composer was constructed from no layouts.
C21_WitnessComposer ==
    /\ Called("MultiViewComposer")
    /\ engine_call.args[1] = <<>>
    /\ IsRaise(engine_call.result)

\* A document that nothing is wrong with is loaded.
C21_Loaded ==
    /\ Called("load_config")
    /\ ~Rejected(engine_call.args[1])
    /\ ~IsRaise(engine_call.result)

(***************************************************************************)
(* Properties of the sizes of a built layout.                              *)
(***************************************************************************)
\* Every junction of the configuration has at least 2 children.
RECURSIVE WellFormed(_)
WellFormed(cfg) ==
    \/ cfg.camera # NoCamera
    \/ /\ Len(cfg.children) >= 2
       /\ \A i \in DOMAIN cfg.children : WellFormed(cfg.children[i])

\* All camera sizes of the call have a height and a width of at least 1.
SizesPositive == \A c \in DOMAIN camera_sizes : camera_sizes[c][1] >= 1 /\ camera_sizes[c][2] >= 1

RECURSIVE Nodes(_)
Nodes(node) ==
    IF IsLeaf(node) THEN {node} ELSE {node} \cup Nodes(node.left) \cup Nodes(node.right)

\* C22: build_layout_from_config raises ValueError, and returns no tree, for
\* every configuration that has, at any depth, a junction (a node without a
\* camera) with fewer than 2 children.
C22_MalformedRaisesValueError ==
    (pc # "config" /\ ~WellFormed(layout_config)) =>
        /\ pc = "raised"
        /\ error = "ValueError"
        /\ root = NoNode

\* A malformed junction below the root, after a well-formed sibling, raised
\* ValueError.
C22_Witness ==
    /\ pc = "raised"
    /\ error = "ValueError"
    /\ Len(layout_config.children) = 2
    /\ WellFormed(layout_config.children[1])
    /\ ~WellFormed(layout_config.children[2])

\* Every configuration with a malformed junction raises and returns no tree.
C22_MalformedRaises ==
    (pc # "config" /\ ~WellFormed(layout_config)) => (pc = "raised" /\ root = NoNode)

\* The leaves of the configuration name the camera.
NamesCamera(cfg, camera) == \E i \in DOMAIN ConfigCameras(cfg) : ConfigCameras(cfg)[i] = camera

\* The build of the configuration with the undeclared camera declared 480x640
DeclaredBuild ==
    compute_layout_from_config(layout_config,
                               SetItem(camera_sizes, UnknownCamera, <<480, 640>>))

\* C23: a leaf whose camera is absent from camera_sizes is created 480x640
\* and that size is recorded in target_sizes, without raising; the rest of
\* the tree is built as if the camera had been declared with that size.
C23_UnknownCameraDefault ==
    (pc # "config" /\ UnknownCamera \notin DOMAIN camera_sizes
        /\ WellFormed(layout_config) /\ NamesCamera(layout_config, UnknownCamera)) =>
        /\ layout_config = Leaf(UnknownCamera) =>
                /\ pc # "raised"
                /\ root = make_camera_node(UnknownCamera, 480, 640)
                /\ target_sizes = SetItem(EmptySizes, UnknownCamera, <<480, 640>>)
        /\ layout_config # Leaf(UnknownCamera) =>
                \E i \in DOMAIN calls :
                    /\ make_camera_node(UnknownCamera, 480, 640) \in {calls[i].node1, calls[i].node2}
                    /\ calls[i].target_sizes[UnknownCamera] = <<480, 640>>
        /\ (pc # "raised") = DeclaredBuild.ok
        /\ error = DeclaredBuild.error
        /\ calls = DeclaredBuild.calls
        /\ pc # "raised" => root = DeclaredBuild.node /\ target_sizes = DeclaredBuild.target_sizes

\* A tree with the undeclared camera under a junction was built, and the
\* leaf of the camera was resized afterwards.
C23_Witness ==
    /\ pc = "built"
    /\ UnknownCamera \notin DOMAIN camera_sizes
    /\ layout_config # Leaf(UnknownCamera)
    /\ NamesCamera(layout_config, UnknownCamera)
    /\ target_sizes[UnknownCamera] # <<480, 640>>

\* C25: build_layout_from_config completes without raising for every
\* configuration whose junctions all have at least 2 children, on camera
\* sizes of at least 1x1: no division by zero in make_junction_node or in
\* LayoutNode.resize.
C25_BuildCompletes ==
    (pc # "config" /\ WellFormed(layout_config) /\ SizesPositive) => pc # "raised"

\* C26: with camera sizes of at least 1x1, every node of the built tree and
\* every entry of target_sizes has a height and a width of at least 1.
C26_SizesPositive ==
    (Completed /\ SizesPositive) =>
        /\ \A n \in Nodes(root) : n.height >= 1 /\ n.width >= 1
        /\ \A c \in DOMAIN target_sizes : target_sizes[c][1] >= 1 /\ target_sizes[c][2] >= 1

\* The size a leaf of the camera is created with
InitialSize(camera) ==
    IF camera \in DOMAIN camera_sizes THEN camera_sizes[camera]
    ELSE <<DefaultHeight, DefaultWidth>>

\* C27: no leaf is enlarged by the build: the final height and width of
\* every leaf and of every entry of target_sizes are at most the ones the
\* camera came with, also for leaves resized through an ancestor and for
\* right children, which receive a remainder.
C27_NeverEnlarged ==
    Completed =>
        /\ \A c \in DOMAIN target_sizes :
                /\ target_sizes[c][1] <= InitialSize(c)[1]
                /\ target_sizes[c][2] <= InitialSize(c)[2]
        /\ \A i \in DOMAIN LeafSeq(root) :
                /\ LeafSeq(root)[i].height <= InitialSize(LeafSeq(root)[i].camera)[1]
                /\ LeafSeq(root)[i].width <= InitialSize(LeafSeq(root)[i].camera)[2]

\* A junction was resized and its right child, a leaf, received the
\* remainder of a dimension that the left child was rounded in.
C27_Witness ==
    /\ pc = "built"
    /\ \E c \in CallsMade :
        /\ ~IsLeaf(c.node1)
        /\ IsLeaf(c.node1.right)
        /\ c.junction.left # c.node1
        /\ Axis(c.junction.left.right, c.node1.direction) < Axis(c.node1.right, c.node1.direction)
        /\ Axis(c.junction.left.right, c.node1.direction) >= 1

\* The direction a junction configuration is built with
DirectionOf(cfg) == IF cfg.direction = "horizontal" THEN HORIZONTAL ELSE VERTICAL

\* The subtree of a child configuration as built, before it is combined
ChildBuilt(cfg, i) == compute_layout_from_config(cfg.children[i], camera_sizes)

Minimum(S) == CHOOSE m \in S : \A x \in S : m <= x

\* The orderings of n children
Orderings(n) == {o \in [1..n -> 1..n] : \A i, j \in 1..n : o[i] = o[j] => i = j}

Reordered(cfg, o) == [cfg EXCEPT !.children = [i \in DOMAIN o |-> cfg.children[o[i]]]]

\* The perpendicular dimension of the junction built from the configuration
\* is the minimum over its children as built, in every ordering of the
\* children, and so in the junctions below.
RECURSIVE PerpIsMinimum(_)
PerpIsMinimum(cfg) ==
    \/ cfg.camera # NoCamera
    \/ /\ \A o \in Orderings(Len(cfg.children)) :
            LET built == compute_layout_from_config(Reordered(cfg, o), camera_sizes)
            IN  built.ok =>
                    Perp(built.node, DirectionOf(cfg)) =
                        Minimum({Perp(ChildBuilt(cfg, i).node, DirectionOf(cfg)) :
                                    i \in DOMAIN cfg.children})
       /\ \A i \in DOMAIN cfg.children : PerpIsMinimum(cfg.children[i])

\* C28: the perpendicular dimension of a built junction (the width of a
\* vertical one, the height of a horizontal one) is the minimum of the
\* perpendicular dimensions of its children's subtrees as built, whatever
\* the order of the children.
C28_PerpIsMinimum ==
    pc = "built" =>
        /\ PerpIsMinimum(layout_config)
        /\ layout_config.camera = NoCamera =>
                Perp(root, DirectionOf(layout_config)) =
                    Minimum({Perp(ChildBuilt(layout_config, i).node, DirectionOf(layout_config)) :
                                i \in DOMAIN layout_config.children})

\* A junction of three children or more was built whose narrowest child is
\* neither the first nor the last, and narrower than both.
C28_Witness ==
    /\ pc = "built"
    /\ layout_config.camera = NoCamera
    /\ Len(layout_config.children) >= 3
    /\ Perp(root, DirectionOf(layout_config))
            = Perp(ChildBuilt(layout_config, 2).node, DirectionOf(layout_config))
    /\ Perp(root, DirectionOf(layout_config))
            < Perp(ChildBuilt(layout_config, 1).node, DirectionOf(layout_config))
    /\ Perp(root, DirectionOf(layout_config))
            < Perp(ChildBuilt(layout_config, Len(layout_config.children)).node,
                   DirectionOf(layout_config))

(***************************************************************************)
(* Properties of the condition language under hostile values.              *)
(***************************************************************************)
\* The expression of the call is "{x} OP literal" for the operator op, the
\* literal holding no character of an operator
IsComparisonOfX(expr, op) ==
    /\ Len(expr) > 5 + Len(op)
    /\ SubSeq(expr, 1, 4) = <<"{", "x", "}", " ">>
    /\ SubSeq(expr, 5, 4 + Len(op)) = op
    /\ expr[5 + Len(op)] = " "
    /\ \A i \in (6 + Len(op))..Len(expr) : expr[i] \notin {"<", ">", "=", "!"}

LiteralOf(expr, op) == SubSeq(expr, 6 + Len(op), Len(expr))

\* The value of x holds no operator, no quote and no brace, and is not a
\* string that reads as a number or a boolean
PlainValue(value) ==
    IsStr(value) =>
        /\ \A i \in DOMAIN value[2] :
                value[2][i] \notin {"<", ">", "=", "!", "'", "\"", "{", "}"}
        /\ IsStr(_parse_value(value[2], EmptyDict))

\* C24: for an expression "{v} OP literal" the operator applied is OP, the
\* left operand is the value of v and the right operand is the literal, for
\* every value of v, also a string that holds operator characters, quotes
\* or braces.
C24_InjectionSafe ==
    (Called("evaluate_condition") /\ HasExpression
        /\ <<"x">> \in DOMAIN engine_call.args[2]) =>
        \A i \in DOMAIN OrderedOperators :
            IsComparisonOfX(engine_call.args[1][2], OrderedOperators[i]) =>
                engine_call.result =
                    op_func(OrderedOperators[i], engine_call.args[2][<<"x">>],
                            _parse_value(LiteralOf(engine_call.args[1][2], OrderedOperators[i]),
                                         engine_call.args[2]))

\* The same for the values that hold none of these characters and do not
\* read as a number or a boolean.
C24_SafeForPlainValues ==
    (Called("evaluate_condition") /\ HasExpression
        /\ <<"x">> \in DOMAIN engine_call.args[2]
        /\ PlainValue(engine_call.args[2][<<"x">>])) =>
        \A i \in DOMAIN OrderedOperators :
            IsComparisonOfX(engine_call.args[1][2], OrderedOperators[i]) =>
                engine_call.result =
                    op_func(OrderedOperators[i], engine_call.args[2][<<"x">>],
                            _parse_value(LiteralOf(engine_call.args[1][2], OrderedOperators[i]),
                                         engine_call.args[2]))

\* "{x} > 44" with x = "a<=b" is split at the <= of the value and is true.
C24_Injected ==
    /\ Called("evaluate_condition")
    /\ engine_call.args[1] = StrV(<<"{", "x", "}", " ", ">", " ", "4", "4">>)
    /\ engine_call.args[2] = Context(<<"x">>, StrV(<<"a", "<", "=", "b">>))
    /\ engine_call.result = TRUE
    /\ Selected = <<"<", "=">>

(***************************************************************************)
(* Properties of the growth of the overlay cache.                          *)
(***************************************************************************)
\* C29: the overlay cache only grows: no step (sensor update, overlay
\* computation, frame generation) removes an entry or changes the value
\* stored under a key, and an entry is written only when its key was not in
\* the cache, under the key of the call that wrote it.
C29_CacheOnlyGrows ==
    [][/\ overlay_cache \subseteq overlay_cache'
       /\ \A entry \in overlay_cache : CacheHits(overlay_cache', entry.key) = {entry}
       /\ \A entry \in overlay_cache' \ overlay_cache :
            /\ CacheHits(overlay_cache, entry.key) = {}
            /\ last'.kind = "draw" =>
                    entry.key = <<last'.overlay_config.id, last'.cache_key>>
      ]_vars

\* A call was served from a cache that holds two entries or more.
C29_Witness ==
    /\ DrawnWithCache
    /\ ~last.computed
    /\ Cardinality(overlay_cache) >= 2

(***************************************************************************)
(* Properties of draw_camera_overlays on the layouts other than the first. *)
(***************************************************************************)
\* C30: draw_camera_overlays draws text overlays only for layout index 0:
\* for any other tree_index no text overlay is drawn, none is computed and
\* the cache is unchanged.  The centermark is drawn independently of the
\* index, whenever it is requested and enabled, as the two lines of the
\* crosshair through the centre of the image; draw_centermark leaves the
\* image untouched when the centermark is disabled.  The last call of
\* draw_camera_overlays is the one whose arguments and results last holds.
C30_TextOnlyOnFirstLayout ==
    [][last'.kind = "camera" =>
        /\ last'.tree_index # 0 =>
                /\ last'.img = <<>>
                /\ ~last'.computed
                /\ overlay_cache' = overlay_cache
        /\ (last'.draw_centermark_flag /\ last'.config.centermark.enabled) =>
                /\ Len(last'.lines) = 2
                /\ last'.lines[1].pt1[2] = ExampleSizes[last'.camera][1] \div 2
                /\ last'.lines[1].pt2[2] = ExampleSizes[last'.camera][1] \div 2
                /\ last'.lines[2].pt1[1] = ExampleSizes[last'.camera][2] \div 2
                /\ last'.lines[2].pt2[1] = ExampleSizes[last'.camera][2] \div 2
        /\ ~(last'.draw_centermark_flag /\ last'.config.centermark.enabled) =>
                last'.lines = <<>>
      ]_vars

\* On layout 1 the centermark was drawn and no text overlay, for a camera
\* that has a visible overlay.
C30_Witness ==
    /\ last.kind = "camera"
    /\ last.tree_index = 1
    /\ last.draw_centermark_flag
    /\ Len(last.lines) = 2
    /\ last.img = <<>>
    /\ draw_on_every_index(<<>>, last.camera, last.sensor_data, last.config, 1,
                           overlay_cache).img # <<>>

\* On layout 0 text overlays were drawn and computed, and the centermark
\* with them.
C30_WitnessFirst ==
    /\ last.kind = "camera"
    /\ last.tree_index = 0
    /\ last.draw_centermark_flag
    /\ Len(last.lines) = 2
    /\ last.img # <<>>
    /\ overlay_cache # {}

====
